---- MODULE Spec2Model ----
(***************************************************************************)
(* A model of the megane structure / trajectory parsers:                   *)
(*   bond inference over a cell list        (src/wasm/src/bonds.rs)        *)
(*   the PDB, GRO, XYZ and MOL text parsers (parser.rs, gro.rs, xyz.rs,    *)
(*                                           mol.rs)                       *)
(*   the XTC trajectory reader              (src/wasm/src/xtc.rs)          *)
(*                                                                         *)
(* Numbers.  An f32 length is modelled by the integer number of hundredths *)
(* it holds (1.5 A is 150, 0.66 A is 66); the dimensionless factors 1.3   *)
(* and 0.6 are held in tenths.  Arithmetic is exact, so rounding of f32 is *)
(* not modelled.  Rust indices are 0-based; a Rust vector v is the TLA+    *)
(* sequence whose element k+1 is v[k].                                     *)
(***************************************************************************)
EXTENDS Integers, Sequences, FiniteSets, TLC

\* ------------------------------------------------------------------------
\* General helpers
\* ------------------------------------------------------------------------

Min2(a, b) == IF a <= b THEN a ELSE b

Max2(a, b) == IF a >= b THEN a ELSE b

\* ceil(a / b) for a >= 0, b > 0
CeilDiv(a, b) == (a + b - 1) \div b

RECURSIVE Flatten(_)
Flatten(ss) ==
  IF Len(ss) = 0 THEN <<>> ELSE Head(ss) \o Flatten(Tail(ss))

SeqToSet(s) == {s[k] : k \in 1..Len(s)}

RECURSIVE SeqMin(_)
SeqMin(s) == IF Len(s) = 1 THEN s[1] ELSE Min2(s[1], SeqMin(Tail(s)))

RECURSIVE SeqMax(_)
SeqMax(s) == IF Len(s) = 1 THEN s[1] ELSE Max2(s[1], SeqMax(Tail(s)))

\* ------------------------------------------------------------------------
\* bonds.rs : radii tables and constants
\* ------------------------------------------------------------------------

\* covalent_radius(atomic_num), hundredths of an Angstrom
covalent_radius(z) ==
  CASE z = 1 -> 31 [] z = 5 -> 84 [] z = 6 -> 76 [] z = 7 -> 71
    [] z = 8 -> 66 [] z = 9 -> 57 [] z = 11 -> 166 [] z = 12 -> 141
    [] z = 14 -> 111 [] z = 15 -> 107 [] z = 16 -> 105 [] z = 17 -> 102
    [] z = 19 -> 203 [] z = 20 -> 176 [] z = 25 -> 139 [] z = 26 -> 132
    [] z = 27 -> 126 [] z = 28 -> 124 [] z = 29 -> 132 [] z = 30 -> 122
    [] z = 34 -> 120 [] z = 35 -> 120 [] z = 53 -> 139
    [] OTHER -> 77

\* vdw_radius(atomic_num), hundredths of an Angstrom
vdw_radius(z) ==
  CASE z = 1 -> 120 [] z = 6 -> 170 [] z = 7 -> 155 [] z = 8 -> 152
    [] z = 9 -> 147 [] z = 11 -> 227 [] z = 12 -> 173 [] z = 15 -> 180
    [] z = 16 -> 180 [] z = 17 -> 175 [] z = 19 -> 275 [] z = 20 -> 231
    [] z = 26 -> 204 [] z = 29 -> 140 [] z = 30 -> 139
    [] OTHER -> 150

\* BOND_TOLERANCE = 1.3, in tenths
BOND_TOLERANCE == 13

\* MIN_BOND_DIST = 0.4 A, in hundredths
MIN_BOND_DIST == 40

\* VDW_BOND_FACTOR = 0.6, in tenths
VDW_BOND_FACTOR == 6

\* cell_size of infer_bonds: 2.5 A
COV_CELL_SIZE == 250

\* cell_size of infer_bonds_vdw: 2.0 A
VDW_CELL_SIZE == 200

\* ------------------------------------------------------------------------
\* bonds.rs : cell_list_scan
\* ------------------------------------------------------------------------

\* coordinate `axis` (0,1,2) of atom i (0-based) in a flat positions vector
Coord(positions, i, axis) == positions[i * 3 + axis + 1]

AxisCoords(positions, n_atoms, axis) ==
  [k \in 1..n_atoms |-> Coord(positions, k - 1, axis)]

\* nx, ny, nz: ((max - min) / cell_size).ceil().max(1.0) as usize
GridDim(positions, n_atoms, cell_size, axis) ==
  LET cs == AxisCoords(positions, n_atoms, axis)
  IN  Max2(CeilDiv(SeqMax(cs) - SeqMin(cs), cell_size), 1)

\* cx, cy, cz of atom i: (((p - min) / cell_size) as usize).min(n - 1)
CellCoord(positions, n_atoms, cell_size, axis, i) ==
  LET cs == AxisCoords(positions, n_atoms, axis)
  IN  Min2((Coord(positions, i, axis) - SeqMin(cs)) \div cell_size,
           GridDim(positions, n_atoms, cell_size, axis) - 1)

\* a shell that holds (0,0,1) together with its mirror image (0,0,-1)
OffsetsWithMirror ==
  << <<0, 0, 1>>, <<0, 0, -1>>, <<0, 1, 0>>, <<0, 1, 1>>,
     <<1, -1, -1>>, <<1, -1, 0>>, <<1, -1, 1>>,
     <<1, 0, -1>>, <<1, 0, 0>>, <<1, 0, 1>>,
     <<1, 1, -1>>, <<1, 1, 0>>, <<1, 1, 1>> >>

\* the 13 neighbor offsets (a half shell), in the order of the source array
offsets ==
  << <<0, 0, 1>>, <<0, 1, -1>>, <<0, 1, 0>>, <<0, 1, 1>>,
     <<1, -1, -1>>, <<1, -1, 0>>, <<1, -1, 1>>,
     <<1, 0, -1>>, <<1, 0, 0>>, <<1, 0, 1>>,
     <<1, 1, -1>>, <<1, 1, 0>>, <<1, 1, 1>> >>

\* cells[cx*ny*nz + cy*nz + cz] after the build loop: the atoms pushed to the
\* cell, in index order.  cellOf[i+1] is the <<cx, cy, cz>> of atom i.
CellList(cellOf, n_atoms, cx, cy, cz) ==
  SelectSeq([k \in 1..n_atoms |-> k - 1], LAMBDA i : cellOf[i + 1] = <<cx, cy, cz>>)

\* The pairs (i, j) that cell_list_scan hands to check_pair, in the order of
\* the traversal: cells in lexicographic order; for each atom of the cell the
\* later atoms of the same cell, then the atoms of each in-range neighbor.
cell_list_scan(positions, n_atoms, cell_size) ==
  IF n_atoms = 0 THEN <<>>
  ELSE
    LET nx == GridDim(positions, n_atoms, cell_size, 0)
        ny == GridDim(positions, n_atoms, cell_size, 1)
        nz == GridDim(positions, n_atoms, cell_size, 2)
        cellOf == <<>> \o [k \in 1..n_atoms |->
                     << CellCoord(positions, n_atoms, cell_size, 0, k - 1),
                        CellCoord(positions, n_atoms, cell_size, 1, k - 1),
                        CellCoord(positions, n_atoms, cell_size, 2, k - 1) >>]
        \* the flat vector cells, index cx*ny*nz + cy*nz + cz
        cells == <<>> \o [idx \in 1..(nx * ny * nz) |->
                    CellList(cellOf, n_atoms, (idx - 1) \div (ny * nz),
                             ((idx - 1) \div nz) % ny, (idx - 1) % nz)]
        cellAt(cx, cy, cz) == cells[cx * ny * nz + cy * nz + cz + 1]
        neighbor(cx, cy, cz, i, o) ==
          LET ncx == cx + offsets[o][1]
              ncy == cy + offsets[o][2]
              ncz == cz + offsets[o][3]
          IN  IF \/ ncx < 0 \/ ncy < 0 \/ ncz < 0
                 \/ ncx >= nx \/ ncy >= ny \/ ncz >= nz
              THEN <<>>
              ELSE LET nb == cellAt(ncx, ncy, ncz)
                   IN  [k \in 1..Len(nb) |-> <<i, nb[k]>>]
        forAtom(cx, cy, cz, cell, ii) ==
          [k \in 1..(Len(cell) - ii) |-> <<cell[ii], cell[ii + k]>>]
          \o Flatten([o \in 1..Len(offsets) |-> neighbor(cx, cy, cz, cell[ii], o)])
        forCell(cx, cy, cz) ==
          LET cell == cellAt(cx, cy, cz)
          IN  IF Len(cell) = 0 THEN <<>>
              ELSE Flatten([ii \in 1..Len(cell) |-> forAtom(cx, cy, cz, cell, ii)])
    IN  Flatten([a \in 1..nx |->
          Flatten([b \in 1..ny |->
            Flatten([c \in 1..nz |-> forCell(a - 1, b - 1, c - 1)])])])

\* ------------------------------------------------------------------------
\* bonds.rs : infer_bonds, infer_bonds_vdw
\* ------------------------------------------------------------------------

DistSq(positions, i, j) ==
  LET dx == Coord(positions, j, 0) - Coord(positions, i, 0)
      dy == Coord(positions, j, 1) - Coord(positions, i, 1)
      dz == Coord(positions, j, 2) - Coord(positions, i, 2)
  IN  dx * dx + dy * dy + dz * dz

\* dist_sq > MIN_BOND_DIST^2 && dist_sq <= threshold^2, where threshold is
\* (ri + rj) * factor and factor is held in tenths
WithinBondRange(dist_sq, rsum, factor) ==
  /\ dist_sq > MIN_BOND_DIST * MIN_BOND_DIST
  /\ dist_sq * 100 <= (rsum * factor) * (rsum * factor)

OrderedPair(i, j) == <<Min2(i, j), Max2(i, j)>>

\* the closure of infer_bonds without its existing_bonds test
CovIgnoringExisting(positions, elements, existing_bonds, i, j) ==
  WithinBondRange(DistSq(positions, i, j),
                  covalent_radius(elements[i + 1]) + covalent_radius(elements[j + 1]),
                  BOND_TOLERANCE)

\* the closure of infer_bonds, as a predicate on the pair handed to it
CovAccepts(positions, elements, existing_bonds, i, j) ==
  /\ OrderedPair(i, j) \notin existing_bonds
  /\ WithinBondRange(DistSq(positions, i, j),
                     covalent_radius(elements[i + 1]) + covalent_radius(elements[j + 1]),
                     BOND_TOLERANCE)

\* the closure of infer_bonds_vdw, as a predicate
VdwAccepts(positions, elements, i, j) ==
  WithinBondRange(DistSq(positions, i, j),
                  vdw_radius(elements[i + 1]) + vdw_radius(elements[j + 1]),
                  VDW_BOND_FACTOR)

PairsToBonds(pairs) == [k \in 1..Len(pairs) |-> OrderedPair(pairs[k][1], pairs[k][2])]

infer_bonds(positions, elements, n_atoms, existing_bonds) ==
  PairsToBonds(SelectSeq(cell_list_scan(positions, n_atoms, COV_CELL_SIZE),
     LAMBDA p : CovAccepts(positions, elements, existing_bonds, p[1], p[2])))

infer_bonds_vdw(positions, elements, n_atoms) ==
  PairsToBonds(SelectSeq(cell_list_scan(positions, n_atoms, VDW_CELL_SIZE),
     LAMBDA p : VdwAccepts(positions, elements, p[1], p[2])))

\* ------------------------------------------------------------------------
\* A caller of the bond inference: it builds an atom array, then calls
\* infer_bonds (twice, the second time seeded by the first result) and
\* infer_bonds_vdw.
\* ------------------------------------------------------------------------

\* atoms the caller places at most
MaxBondAtoms == 3

\* where the caller places atoms (hundredths of an Angstrom)
BondPoints ==
  { <<0, 0, 0>>, <<150, 0, 0>>, <<410, 0, 0>>, <<510, 0, 0>>,
    <<0, 260, 0>>, <<0, 0, 260>> }

\* C and K
BondElements == {6, 19}

VARIABLES
  b_positions,   \* the caller's positions: &[f32]
  b_elements,    \* the caller's elements: &[u8]
  b_n_atoms,     \* the caller's n_atoms
  b_phase,       \* "build", "cov", "again", "vdw"
  b_visited,     \* the pairs the last scan handed to check_pair
  b_bonds,       \* the result of the last call
  b_first        \* the result of the first infer_bonds call

bondVars ==
  <<b_positions, b_elements, b_n_atoms, b_phase, b_visited, b_bonds, b_first>>

\* One call of a text parser (PDB, GRO, XYZ or MOL).
VARIABLES
  format,        \* which parser runs: "pdb", "gro", "xyz", "mol" ("none": no call)
  n_lines,       \* lines.len() of the text (gro, xyz, mol)
  cursor,        \* lines consumed so far
  outcome,       \* "run", then "ok" (Ok), "err" (Err) or "panic"
  error,         \* the Err string
  result         \* the ParsedStructure returned by Ok

textVars == <<format, n_lines, cursor, outcome, error, result>>

\* Locals of parser.rs parse (PDB).
VARIABLES
  box_matrix,        \* Option<[f32; 9]>
  serial_to_index,   \* HashMap<i32, usize>
  conect_bonds,      \* Vec<(u32, u32)>
  all_models,        \* Vec<Vec<Atom>>
  current_model,     \* Vec<Atom>
  has_model_record,  \* bool
  model_count        \* usize

pdbVars ==
  <<box_matrix, serial_to_index, conect_bonds, all_models, current_model,
    has_model_record, model_count>>

\* What the lines of the PDB text read so far held.
VARIABLES
  first_cryst1,      \* the first CRYST1 line, None before it
  text_atoms,        \* the ATOM / HETATM lines parse_atom_line accepted
  block_state,       \* the first MODEL block: "before", "open" or "closed"
  block_atoms        \* the accepted ATOM / HETATM lines of the first MODEL block

pdbTextVars == <<first_cryst1, text_atoms, block_state, block_atoms>>

\* Locals of gro.rs parse and mol.rs parse.
VARIABLES
  phase,         \* "start" before the header checks, then "body"
  n_atoms,       \* usize
  n_bonds,       \* usize (mol)
  positions,     \* Vec<f32>
  elements,      \* Vec<u8>
  bonds,         \* Vec<(u32, u32)> (mol)
  bond_orders,   \* Vec<u8> (mol)
  file_values    \* the numeric fields read from the text so far: the
                 \* coordinates of gro atom lines, the atoms of mol bond lines

locVars ==
  <<phase, n_atoms, n_bonds, positions, elements, bonds, bond_orders, file_values>>

\* Locals of xyz.rs parse; its offset is cursor.
VARIABLES
  first_positions,   \* Option<Vec<f32>>
  first_elements,    \* Option<Vec<u8>>
  first_n_atoms,     \* usize
  frame_positions    \* Vec<Vec<f32>>

xyzVars == <<first_positions, first_elements, first_n_atoms, frame_positions>>

\* What the lines of the XYZ text read so far held.
VARIABLES
  xyz_blocks,    \* the complete blocks: declared count, positions, elements
  xyz_blanks,    \* the blank lines met where a count line was expected
  xyz_tail       \* "incomplete" once a block ran past the end of the text

xyzTextVars == <<xyz_blocks, xyz_blanks, xyz_tail>>

\* Locals of xtc.rs parse_xtc; its n_atoms, frame_positions are those above.
VARIABLES
  xdr_pos,        \* XdrReader.pos
  first_time,     \* f32
  second_time,    \* f32
  last_box,       \* Option<[f32; 9]>
  frame_natoms,   \* the natoms fields of the frame headers read so far
  frame_stamps    \* the time and box words of the frame headers read so far

xtcVars == <<xdr_pos, first_time, second_time, last_box, frame_natoms, frame_stamps>>

\* Locals of xtc.rs decompress_coords.
VARIABLES
  precision,      \* f32 (inv_precision is its inverse)
  minint,         \* [i32; 3]
  sizeint,        \* [u32; 3]
  bitsizeint,     \* [u32; 3]
  bitsize,        \* u32
  smallidx,       \* usize
  smaller,        \* u32
  smallnum,       \* u32
  sizesmall,      \* [u32; 3]
  nbytes,         \* usize, the length of the bitstream
  bits,           \* BitReader; buf holds the bytes of the bitstream read so far
  coords,         \* Vec<i32> (compressed block), Vec<f32> (plain block)
  output,         \* Vec<f32>
  prevcoord,      \* [i32; 3]
  d_i,            \* i, the atom index of the decoding loop
  run,            \* usize
  d_k,            \* k, the position in the run
  is_smaller,     \* i32
  last_slot       \* the atom slot of the latest triplet decoded from the bits

decVars ==
  <<precision, minint, sizeint, bitsizeint, bitsize, smallidx, smaller, smallnum,
    sizesmall, nbytes, bits, coords, output, prevcoord, d_i, run, d_k,
    is_smaller, last_slot>>

\* top.rs parse_top_bonds: its argument, its locals, and the text
VARIABLES
  top_phase,         \* "idle", "lines" (in the loop over text.lines()), "returned"
  top_n_atoms,       \* the argument n_atoms
  in_bonds_section,  \* bool
  top_bonds,         \* Vec<(u32, u32)>
  top_text,          \* the lines of text the loop has taken, in order
  top_rest           \* the lines still to come, when the text is a given one

topVars ==
  <<top_phase, top_n_atoms, in_bonds_section, top_bonds, top_text, top_rest>>

\* Calls of the BitReader of xtc.rs by themselves: what was asked of it
VARIABLES
  calls,             \* the decode_bits calls made: [width, value] each
  packed             \* the three numbers packed into the buffer, if any

callVars == <<calls, packed>>

vars ==
  <<bondVars, textVars, pdbVars, pdbTextVars, locVars, xyzVars, xyzTextVars,
    xtcVars, decVars, topVars, callVars>>

otherThanBonds ==
  <<textVars, pdbVars, pdbTextVars, locVars, xyzVars, xyzTextVars, xtcVars,
    decVars, topVars, callVars>>

otherThanPdb ==
  <<bondVars, locVars, xyzVars, xyzTextVars, xtcVars, decVars, topVars, callVars>>

otherThanLoc ==
  <<bondVars, pdbVars, pdbTextVars, xyzVars, xyzTextVars, xtcVars, decVars, topVars,
    callVars>>

otherThanXyz ==
  <<bondVars, pdbVars, pdbTextVars, xtcVars, decVars, topVars, callVars>>

otherThanXtc ==
  <<bondVars, pdbVars, pdbTextVars, n_bonds, positions, elements, bonds,
    bond_orders, first_positions, first_elements, first_n_atoms, xyzTextVars,
    topVars, callVars>>

otherThanTop ==
  <<bondVars, textVars, pdbVars, pdbTextVars, locVars, xyzVars, xyzTextVars,
    xtcVars, decVars, callVars>>

\* ------------------------------------------------------------------------
\* The caller of the bond inference
\* ------------------------------------------------------------------------

BondIdle ==
  /\ b_positions = <<>>
  /\ b_elements = <<>>
  /\ b_n_atoms = 0
  /\ b_phase = "build"
  /\ b_visited = <<>>
  /\ b_bonds = <<>>
  /\ b_first = <<>>

AddAtom(p, e) ==
  /\ b_phase = "build"
  /\ b_n_atoms < MaxBondAtoms
  /\ b_positions' = b_positions \o p
  /\ b_elements' = Append(b_elements, e)
  /\ b_n_atoms' = b_n_atoms + 1
  /\ UNCHANGED <<b_phase, b_visited, b_bonds, b_first>>
  /\ UNCHANGED otherThanBonds

CallInferBonds ==
  /\ b_phase = "build"
  /\ b_phase' = "cov"
  /\ b_visited' = cell_list_scan(b_positions, b_n_atoms, COV_CELL_SIZE)
  /\ b_bonds' = infer_bonds(b_positions, b_elements, b_n_atoms, {})
  /\ b_first' = b_bonds'
  /\ UNCHANGED <<b_positions, b_elements, b_n_atoms>>
  /\ UNCHANGED otherThanBonds

CallInferBondsAgain ==
  /\ b_phase = "cov"
  /\ b_phase' = "again"
  /\ b_visited' = cell_list_scan(b_positions, b_n_atoms, COV_CELL_SIZE)
  /\ b_bonds' = infer_bonds(b_positions, b_elements, b_n_atoms, SeqToSet(b_first))
  /\ UNCHANGED <<b_positions, b_elements, b_n_atoms, b_first>>
  /\ UNCHANGED otherThanBonds

CallInferBondsVdw ==
  /\ b_phase = "build"
  /\ b_phase' = "vdw"
  /\ b_visited' = cell_list_scan(b_positions, b_n_atoms, VDW_CELL_SIZE)
  /\ b_bonds' = infer_bonds_vdw(b_positions, b_elements, b_n_atoms)
  /\ UNCHANGED <<b_positions, b_elements, b_n_atoms, b_first>>
  /\ UNCHANGED otherThanBonds

NextBonds ==
  \/ \E p \in BondPoints, e \in BondElements : AddAtom(p, e)
  \/ CallInferBonds
  \/ CallInferBondsAgain
  \/ CallInferBondsVdw

\* ------------------------------------------------------------------------
\* Text input.  A line is a record of its fixed-width fields; a field is
\* the text of an integer or a number ("int"), blank, or text that does not
\* parse ("junk").
\* ------------------------------------------------------------------------

None == <<>>

Some(v) == <<v>>

IntField(n) == [kind |-> "int", val |-> n]

BlankField == [kind |-> "blank", val |-> 0]

JunkField == [kind |-> "junk", val |-> 0]

\* s.trim().parse().ok()
ParseField(f) == IF f.kind = "int" THEN Some(f.val) ELSE None

\* the ParsedStructure of a parse that has not returned
NoResult ==
  [n_atoms |-> 0, positions |-> <<>>, elements |-> <<>>, bonds |-> <<>>,
   n_file_bonds |-> 0, bond_orders |-> None, box_matrix |-> None,
   frame_positions |-> <<>>]

TextIdle ==
  /\ format = "none"
  /\ n_lines = 0
  /\ cursor = 0
  /\ outcome = "run"
  /\ error = ""
  /\ result = NoResult

\* ------------------------------------------------------------------------
\* parser.rs : the PDB parser
\* ------------------------------------------------------------------------

\* lines of a PDB text
MaxPdbLines == 4

\* target fields on a CONECT line of the input
MaxConectTargets == 1

\* serial numbers on the ATOM and CONECT lines of the input
PdbSerials == {1, 2}

\* where the ATOM lines of the input place atoms (hundredths of an Angstrom)
PdbPoints == { <<0, 0, 0>>, <<150, 0, 0>> }

PdbElements == {6}

\* cell lengths on the CRYST1 lines of the input
PdbCellLengths == {0, 1000}

\* target columns read from a CONECT record: (11..31).step_by(5)
CONECT_COLUMNS == 4

PdbIdle ==
  /\ box_matrix = None
  /\ serial_to_index = <<>>
  /\ conect_bonds = <<>>
  /\ all_models = <<>>
  /\ current_model = <<>>
  /\ has_model_record = FALSE
  /\ model_count = 0
  /\ first_cryst1 = None
  /\ text_atoms = 0
  /\ block_state = "before"
  /\ block_atoms = 0

\* ATOM / HETATM lines: long enough or not, with serial, x, y, z fields and
\* the element parse_element finds
AtomLines ==
  { [long |-> TRUE, serial |-> IntField(s), x |-> IntField(p[1]),
     y |-> IntField(p[2]), z |-> IntField(p[3]), element |-> e]
      : s \in PdbSerials, p \in PdbPoints, e \in PdbElements }
  \cup { [long |-> FALSE, serial |-> IntField(1), x |-> IntField(0),
          y |-> IntField(0), z |-> IntField(0), element |-> 6],
         [long |-> TRUE, serial |-> JunkField, x |-> IntField(0),
          y |-> IntField(0), z |-> IntField(0), element |-> 6],
         [long |-> TRUE, serial |-> IntField(1), x |-> IntField(0),
          y |-> JunkField, z |-> IntField(0), element |-> 6] }

ConectFields == {IntField(s) : s \in PdbSerials} \cup {BlankField, JunkField}

SeqsUpTo(S, n) == UNION {[1..k -> S] : k \in 0..n}

\* CONECT lines: the source field and the target fields the line is long
\* enough to hold
ConectLines ==
  { [source |-> s, targets |-> t]
      : s \in ConectFields, t \in SeqsUpTo(ConectFields, MaxConectTargets) }

\* CRYST1 lines with right angles
Cryst1Lines ==
  { [long |-> TRUE, a |-> IntField(v), b |-> IntField(1000), c |-> IntField(1000)]
      : v \in PdbCellLengths }
  \cup { [long |-> FALSE, a |-> IntField(1000), b |-> IntField(1000), c |-> IntField(1000)],
         [long |-> TRUE, a |-> JunkField, b |-> IntField(1000), c |-> IntField(1000)] }

\* parse_atom_line: Option<(i32, Atom)>
parse_atom_line(line) ==
  IF ~line.long THEN None
  ELSE IF \/ ParseField(line.serial) = None \/ ParseField(line.x) = None
          \/ ParseField(line.y) = None \/ ParseField(line.z) = None
       THEN None
       ELSE Some(<<line.serial.val,
                   [x |-> line.x.val, y |-> line.y.val, z |-> line.z.val,
                    element |-> line.element]>>)

\* cell_params_to_matrix for alpha = beta = gamma = 90 degrees, with
\* cos 90 = 0 and sin 90 = 1
cell_params_to_matrix(a, b, c) == <<a, 0, 0, 0, b, 0, 0, 0, c>>

\* parse_cryst1: Option<[f32; 9]>
parse_cryst1(line) ==
  IF ~line.long THEN None
  ELSE IF \/ ParseField(line.a) = None \/ ParseField(line.b) = None
          \/ ParseField(line.c) = None
       THEN None
       ELSE IF line.a.val <= 0 \/ line.b.val <= 0 \/ line.c.val <= 0
            THEN None
            ELSE Some(cell_params_to_matrix(line.a.val, line.b.val, line.c.val))

\* HashMap::insert
MapInsert(m, k, v) == [x \in (DOMAIN m) \cup {k} |-> IF x = k THEN v ELSE m[x]]

\* parse_conect_line, one target column: the pair (min, max) of the source
\* index and the target index, pushed whenever the target serial is known
ConectTargetBond(f, source_idx, s2i) ==
  IF f.kind = "blank" THEN <<>>
  ELSE IF ParseField(f) = None THEN <<>>
       ELSE IF f.val \notin DOMAIN s2i THEN <<>>
            ELSE << <<Min2(source_idx, s2i[f.val]), Max2(source_idx, s2i[f.val])>> >>

\* parse_conect_line: the bonds of one CONECT record
parse_conect_line(line, s2i) ==
  IF ParseField(line.source) = None THEN <<>>
  ELSE IF line.source.val \notin DOMAIN s2i THEN <<>>
       ELSE LET source_idx == s2i[line.source.val]
                ncols == Min2(Len(line.targets), CONECT_COLUMNS)
            IN  Flatten([k \in 1..ncols |->
                           ConectTargetBond(line.targets[k], source_idx, s2i)])

PdbLineGuard ==
  /\ format = "pdb"
  /\ outcome = "run"
  /\ cursor < MaxPdbLines
  /\ cursor' = cursor + 1
  /\ UNCHANGED <<format, n_lines, outcome, error, result>>
  /\ UNCHANGED otherThanPdb

\* "MODEL"
PdbModel ==
  /\ PdbLineGuard
  /\ has_model_record' = TRUE
  /\ current_model' = <<>>
  /\ UNCHANGED <<box_matrix, serial_to_index, conect_bonds, all_models, model_count>>
  /\ block_state' = IF block_state = "before" THEN "open" ELSE "closed"
  /\ UNCHANGED <<first_cryst1, text_atoms, block_atoms>>

\* "ENDMDL"
PdbEndmdl ==
  /\ PdbLineGuard
  /\ all_models' = Append(all_models, current_model)
  /\ current_model' = <<>>
  /\ model_count' = model_count + 1
  /\ UNCHANGED <<box_matrix, serial_to_index, conect_bonds, has_model_record>>
  /\ block_state' = IF block_state = "open" THEN "closed" ELSE block_state
  /\ UNCHANGED <<first_cryst1, text_atoms, block_atoms>>

\* "CRYST1"
PdbCryst1(line) ==
  /\ PdbLineGuard
  /\ box_matrix' = IF box_matrix = None THEN parse_cryst1(line) ELSE box_matrix
  /\ UNCHANGED <<serial_to_index, conect_bonds, all_models, current_model,
                 has_model_record, model_count>>
  /\ first_cryst1' = IF first_cryst1 = None THEN Some(line) ELSE first_cryst1
  /\ UNCHANGED <<text_atoms, block_state, block_atoms>>

\* "ATOM" | "HETATM"
PdbAtom(line) ==
  /\ PdbLineGuard
  /\ LET parsed == parse_atom_line(line)
     IN  IF parsed = None
         THEN UNCHANGED <<serial_to_index, current_model>>
         ELSE /\ serial_to_index' =
                   IF ~has_model_record \/ model_count = 0
                   THEN MapInsert(serial_to_index, parsed[1][1], Len(current_model))
                   ELSE serial_to_index
              /\ current_model' = Append(current_model, parsed[1][2])
  /\ UNCHANGED <<box_matrix, conect_bonds, all_models, has_model_record, model_count>>
  /\ text_atoms' = IF parse_atom_line(line) = None THEN text_atoms ELSE text_atoms + 1
  /\ block_atoms' = IF parse_atom_line(line) # None /\ block_state = "open"
                    THEN block_atoms + 1 ELSE block_atoms
  /\ UNCHANGED <<first_cryst1, block_state>>

\* "CONECT"
PdbConect(line) ==
  /\ PdbLineGuard
  /\ conect_bonds' = conect_bonds \o parse_conect_line(line, serial_to_index)
  /\ UNCHANGED <<box_matrix, serial_to_index, all_models, current_model,
                 has_model_record, model_count>>
  /\ UNCHANGED pdbTextVars

\* any other record
PdbOther ==
  /\ PdbLineGuard
  /\ UNCHANGED pdbVars
  /\ UNCHANGED pdbTextVars

\* lines 275-279 with every pair pushed
KeepRepeats(s) == s

\* the first occurrence of each element, in order
RECURSIVE Dedup(_)
Dedup(s) ==
  IF Len(s) = 0 THEN <<>>
  ELSE LET front == Dedup(SubSeq(s, 1, Len(s) - 1))
       IN  IF s[Len(s)] \in SeqToSet(front) THEN front ELSE Append(front, s[Len(s)])

ModelPositions(model) ==
  Flatten([k \in 1..Len(model) |-> <<model[k].x, model[k].y, model[k].z>>])

ModelElements(model) == [k \in 1..Len(model) |-> model[k].element]

\* the code after the line loop: the text has ended
PdbFinish ==
  /\ format = "pdb"
  /\ outcome = "run"
  /\ LET models == IF ~has_model_record /\ current_model # <<>>
                   THEN Append(all_models, current_model)
                   ELSE all_models
     IN  /\ all_models' = models
         /\ IF models = <<>> \/ models[1] = <<>>
            THEN /\ outcome' = "err"
                 /\ error' = "PDB file contains no ATOM or HETATM records"
                 /\ UNCHANGED result
            ELSE LET first_model == models[1]
                     model_n_atoms == Len(first_model)
                     model_positions == ModelPositions(first_model)
                     model_elements == ModelElements(first_model)
                     bond_set == SeqToSet(conect_bonds)
                     unique_bonds == Dedup(conect_bonds)
                     inferred == infer_bonds(model_positions, model_elements,
                                             model_n_atoms, bond_set)
                     later == SelectSeq(Tail(models),
                                        LAMBDA m : Len(m) = model_n_atoms)
                 IN  /\ outcome' = "ok"
                     /\ UNCHANGED error
                     /\ result' =
                          [n_atoms |-> model_n_atoms,
                           positions |-> model_positions,
                           elements |-> model_elements,
                           bonds |-> unique_bonds \o inferred,
                           n_file_bonds |-> Len(unique_bonds),
                           bond_orders |-> None,
                           box_matrix |-> box_matrix,
                           frame_positions |->
                             [k \in 1..Len(later) |-> ModelPositions(later[k])]]
  /\ UNCHANGED <<format, n_lines, cursor>>
  /\ UNCHANGED <<box_matrix, serial_to_index, conect_bonds, current_model,
                 has_model_record, model_count>>
  /\ UNCHANGED pdbTextVars
  /\ UNCHANGED otherThanPdb

NextPdb ==
  \/ PdbModel
  \/ PdbEndmdl
  \/ \E line \in Cryst1Lines : PdbCryst1(line)
  \/ \E line \in AtomLines : PdbAtom(line)
  \/ \E line \in ConectLines : PdbConect(line)
  \/ PdbOther
  \/ PdbFinish

\* ------------------------------------------------------------------------
\* gro.rs, mol.rs, xyz.rs : the input texts
\* ------------------------------------------------------------------------

\* lines of a GRO, MOL or XYZ text
MaxTextLines == 7

\* the largest atom or bond count a header line of the input declares
MaxCount == 2

\* where the atom lines of a MOL or XYZ text place atoms (hundredths of A)
AtomPoints == { <<0, 0, 0>>, <<150, 0, 0>> }

\* the coordinate fields of the atom lines of a GRO text (hundredths of nm)
GroPoints == { <<0, 0, 0>>, <<15, 0, 0>> }

CountFields == {IntField(n) : n \in 0..MaxCount} \cup {JunkField}

LocIdle ==
  /\ phase = "start"
  /\ n_atoms = 0
  /\ n_bonds = 0
  /\ positions = <<>>
  /\ elements = <<>>
  /\ bonds = <<>>
  /\ bond_orders = <<>>
  /\ file_values = <<>>

XyzIdle ==
  /\ first_positions = None
  /\ first_elements = None
  /\ first_n_atoms = 0
  /\ frame_positions = <<>>
  /\ xyz_blocks = <<>>
  /\ xyz_blanks = 0
  /\ xyz_tail = "none"

\* return Err(msg)
ReturnErr(msg) ==
  /\ outcome' = "err"
  /\ error' = msg
  /\ UNCHANGED result

\* ------------------------------------------------------------------------
\* gro.rs : the GRO parser
\* ------------------------------------------------------------------------

\* atom lines: at least 44 characters or not, the x, y, z fields and the
\* element element_from_atom_name finds
GroAtomLines ==
  { [long |-> TRUE, x |-> IntField(p[1]), y |-> IntField(p[2]),
     z |-> IntField(p[3]), element |-> 6] : p \in GroPoints }
  \cup { [long |-> FALSE, x |-> IntField(0), y |-> IntField(0),
          z |-> IntField(0), element |-> 6],
         [long |-> TRUE, x |-> IntField(0), y |-> IntField(0),
          z |-> JunkField, element |-> 6] }

\* box lines: the whitespace-separated tokens
GroBoxLines ==
  { <<>>,
    <<IntField(30), JunkField, IntField(30)>>,
    <<IntField(30), IntField(30), IntField(30)>>,
    <<IntField(30), IntField(31), IntField(32), IntField(1), IntField(2),
      IntField(3), IntField(4), IntField(5), IntField(6)>> }

\* nm -> Angstrom (x * 10.0)
NmToAngstrom(v) == v * 10

\* parse_box_line: Option<[f32; 9]>
parse_box_line(line) ==
  LET parsed == SelectSeq(line, LAMBDA f : ParseField(f) # None)
      vals == [k \in 1..Len(parsed) |-> parsed[k].val]
  IN  IF Len(vals) >= 3
      THEN IF Len(vals) >= 9
           THEN Some(<<NmToAngstrom(vals[1]), NmToAngstrom(vals[4]), NmToAngstrom(vals[5]),
                       NmToAngstrom(vals[6]), NmToAngstrom(vals[2]), NmToAngstrom(vals[7]),
                       NmToAngstrom(vals[8]), NmToAngstrom(vals[9]), NmToAngstrom(vals[3])>>)
           ELSE Some(<<NmToAngstrom(vals[1]), 0, 0,
                       0, NmToAngstrom(vals[2]), 0,
                       0, 0, NmToAngstrom(vals[3])>>)
      ELSE None

\* lines 52-69: the length checks and the atom count of line 2
GroHeader(count) ==
  /\ format = "gro" /\ outcome = "run" /\ phase = "start"
  /\ IF n_lines < 3
     THEN /\ ReturnErr("GRO file too short")
          /\ UNCHANGED <<cursor, phase, n_atoms>>
     ELSE IF ParseField(count) = None
          THEN /\ ReturnErr("cannot parse atom count in GRO")
               /\ UNCHANGED <<cursor, phase, n_atoms>>
          ELSE IF n_lines < count.val + 3
               THEN /\ ReturnErr("GRO file has too few lines")
                    /\ UNCHANGED <<cursor, phase, n_atoms>>
               ELSE /\ n_atoms' = count.val
                    /\ phase' = "body"
                    /\ cursor' = 2
                    /\ UNCHANGED <<outcome, error, result>>
  /\ UNCHANGED <<format, n_lines>>
  /\ UNCHANGED <<n_bonds, positions, elements, bonds, bond_orders, file_values>>
  /\ UNCHANGED otherThanLoc

\* one iteration of the atom loop (lines 74-101)
GroAtomLine(line) ==
  /\ format = "gro" /\ outcome = "run" /\ phase = "body"
  /\ Len(elements) < n_atoms
  /\ IF ~line.long
     THEN /\ ReturnErr("GRO atom line too short")
          /\ UNCHANGED <<cursor, positions, elements, file_values>>
     ELSE IF \/ ParseField(line.x) = None \/ ParseField(line.y) = None
             \/ ParseField(line.z) = None
          THEN /\ ReturnErr("bad coord")
               /\ UNCHANGED <<cursor, positions, elements, file_values>>
          ELSE /\ elements' = Append(elements, line.element)
               /\ positions' = positions \o
                    <<NmToAngstrom(line.x.val), NmToAngstrom(line.y.val),
                      NmToAngstrom(line.z.val)>>
               /\ file_values' = file_values \o <<line.x.val, line.y.val, line.z.val>>
               /\ cursor' = cursor + 1
               /\ UNCHANGED <<outcome, error, result>>
  /\ UNCHANGED <<format, n_lines>>
  /\ UNCHANGED <<phase, n_atoms, n_bonds, bonds, bond_orders>>
  /\ UNCHANGED otherThanLoc

\* lines 103-120: the box line, bond inference and the result
GroFinish(box_line) ==
  /\ format = "gro" /\ outcome = "run" /\ phase = "body"
  /\ Len(elements) = n_atoms
  /\ outcome' = "ok"
  /\ result' = [n_atoms |-> n_atoms,
                positions |-> positions,
                elements |-> elements,
                bonds |-> infer_bonds(positions, elements, n_atoms, {}),
                n_file_bonds |-> 0,
                bond_orders |-> None,
                box_matrix |-> parse_box_line(box_line),
                frame_positions |-> <<>>]
  /\ cursor' = cursor + 1
  /\ UNCHANGED <<format, n_lines, error>>
  /\ UNCHANGED locVars
  /\ UNCHANGED otherThanLoc

NextGro ==
  \/ \E count \in CountFields : GroHeader(count)
  \/ \E line \in GroAtomLines : GroAtomLine(line)
  \/ \E box_line \in GroBoxLines : GroFinish(box_line)

\* ------------------------------------------------------------------------
\* mol.rs : the MOL V2000 parser
\* ------------------------------------------------------------------------

\* A u32 is held as two 16-bit limbs <<high, low>>, so that the wrapped
\* value of 0 - 1 can be written.
U32_LIMB == 65536

U32(n) == <<n \div U32_LIMB, n % U32_LIMB>>

U32Less(a, b) == a[1] < b[1] \/ (a[1] = b[1] /\ a[2] < b[2])

U32Min(a, b) == IF U32Less(b, a) THEN b ELSE a

U32Max(a, b) == IF U32Less(a, b) THEN b ELSE a

\* v - 1 in u32 arithmetic without overflow checks
U32WrappingDec(v) ==
  IF v[2] > 0 THEN <<v[1], v[2] - 1>>
  ELSE IF v[1] > 0 THEN <<v[1] - 1, U32_LIMB - 1>>
       ELSE <<U32_LIMB - 1, U32_LIMB - 1>>

\* atom lines: 34 characters or more (fixed columns) or fewer (whitespace
\* split into nparts parts), and the x, y, z fields
MolAtomLines ==
  { [fixed |-> f, nparts |-> 4, x |-> IntField(p[1]), y |-> IntField(p[2]),
     z |-> IntField(p[3]), element |-> 6] : f \in BOOLEAN, p \in AtomPoints }
  \cup { [fixed |-> FALSE, nparts |-> 3, x |-> IntField(0), y |-> IntField(0),
          z |-> IntField(0), element |-> 6],
         [fixed |-> TRUE, nparts |-> 4, x |-> JunkField, y |-> IntField(0),
          z |-> IntField(0), element |-> 6] }

\* the atom index fields of the bond lines of the input
MolIndexFields == {IntField(n) : n \in 0..(MaxCount + 1)} \cup {JunkField}

\* bond lines: 9 characters or more (fixed columns) or fewer (whitespace
\* split into nparts parts), the two atom fields and the order field
MolBondLines ==
  { [fixed |-> f, nparts |-> 3, a |-> a, b |-> b, order |-> IntField(2)]
      : f \in BOOLEAN, a \in MolIndexFields, b \in MolIndexFields }
  \cup { [fixed |-> TRUE, nparts |-> 3, a |-> IntField(1), b |-> IntField(2),
          order |-> JunkField],
         [fixed |-> FALSE, nparts |-> 2, a |-> IntField(1), b |-> IntField(2),
          order |-> BlankField] }

\* lines 13-35: the length checks and the counts line
MolHeader(atoms_field, bonds_field) ==
  /\ format = "mol" /\ outcome = "run" /\ phase = "start"
  /\ IF n_lines < 5
     THEN /\ ReturnErr("MOL file too short")
          /\ UNCHANGED <<cursor, phase, n_atoms, n_bonds>>
     ELSE IF ParseField(atoms_field) = None \/ ParseField(bonds_field) = None
          THEN /\ ReturnErr("cannot parse integer")
               /\ UNCHANGED <<cursor, phase, n_atoms, n_bonds>>
          ELSE IF atoms_field.val = 0
               THEN /\ ReturnErr("MOL file has zero atoms")
                    /\ UNCHANGED <<cursor, phase, n_atoms, n_bonds>>
               ELSE IF n_lines < 4 + atoms_field.val + bonds_field.val
                    THEN /\ ReturnErr("MOL file too short: expected atom + bond lines")
                         /\ UNCHANGED <<cursor, phase, n_atoms, n_bonds>>
                    ELSE /\ n_atoms' = atoms_field.val
                         /\ n_bonds' = bonds_field.val
                         /\ phase' = "body"
                         /\ cursor' = 4
                         /\ UNCHANGED <<outcome, error, result>>
  /\ UNCHANGED <<format, n_lines>>
  /\ UNCHANGED <<positions, elements, bonds, bond_orders, file_values>>
  /\ UNCHANGED otherThanLoc

\* one iteration of the atom block loop (lines 41-78)
MolAtomLine(line) ==
  /\ format = "mol" /\ outcome = "run" /\ phase = "body"
  /\ Len(elements) < n_atoms
  /\ IF ~line.fixed /\ line.nparts < 4
     THEN /\ ReturnErr("MOL atom line too short")
          /\ UNCHANGED <<cursor, positions, elements>>
     ELSE IF \/ ParseField(line.x) = None \/ ParseField(line.y) = None
             \/ ParseField(line.z) = None
          THEN /\ ReturnErr("bad coordinate")
               /\ UNCHANGED <<cursor, positions, elements>>
          ELSE /\ positions' = positions \o <<line.x.val, line.y.val, line.z.val>>
               /\ elements' = Append(elements, line.element)
               /\ cursor' = cursor + 1
               /\ UNCHANGED <<outcome, error, result>>
  /\ UNCHANGED <<format, n_lines>>
  /\ UNCHANGED <<phase, n_atoms, n_bonds, bonds, bond_orders, file_values>>
  /\ UNCHANGED otherThanLoc

\* (a.min(b), a.max(b))
MolPair(a, b) == <<U32Min(a, b), U32Max(a, b)>>

\* one iteration of the bond block loop (lines 84-104).  With overflow
\* checks (a debug build) the subtraction 0 - 1 panics; without, it wraps.
MolBondLine(line, overflow_checks) ==
  /\ format = "mol" /\ outcome = "run" /\ phase = "body"
  /\ Len(elements) = n_atoms
  /\ Len(bonds) < n_bonds
  /\ IF ~line.fixed /\ line.nparts < 3
     THEN /\ ReturnErr("MOL bond line too short")
          /\ UNCHANGED <<cursor, bonds, bond_orders, file_values>>
     ELSE IF ParseField(line.a) = None
          THEN /\ ReturnErr("bad bond atom1")
               /\ UNCHANGED <<cursor, bonds, bond_orders, file_values>>
          ELSE IF line.a.val = 0 /\ overflow_checks
               THEN /\ outcome' = "panic"
                    /\ UNCHANGED <<error, result, cursor, bonds, bond_orders, file_values>>
               ELSE IF ParseField(line.b) = None
                    THEN /\ ReturnErr("bad bond atom2")
                         /\ UNCHANGED <<cursor, bonds, bond_orders, file_values>>
                    ELSE IF line.b.val = 0 /\ overflow_checks
                         THEN /\ outcome' = "panic"
                              /\ UNCHANGED <<error, result, cursor, bonds, bond_orders, file_values>>
                         ELSE /\ bonds' = Append(bonds,
                                   MolPair(U32WrappingDec(U32(line.a.val)),
                                           U32WrappingDec(U32(line.b.val))))
                              /\ bond_orders' = Append(bond_orders,
                                   IF ParseField(line.order) = None THEN 1
                                   ELSE line.order.val)
                              /\ file_values' = file_values \o <<line.a.val, line.b.val>>
                              /\ cursor' = cursor + 1
                              /\ UNCHANGED <<outcome, error, result>>
  /\ UNCHANGED <<format, n_lines>>
  /\ UNCHANGED <<phase, n_atoms, n_bonds, positions, elements>>
  /\ UNCHANGED otherThanLoc

\* lines 106-115: the result
MolFinish ==
  /\ format = "mol" /\ outcome = "run" /\ phase = "body"
  /\ Len(elements) = n_atoms
  /\ Len(bonds) = n_bonds
  /\ outcome' = "ok"
  /\ result' = [n_atoms |-> n_atoms,
                positions |-> positions,
                elements |-> elements,
                bonds |-> bonds,
                n_file_bonds |-> n_bonds,
                bond_orders |-> Some(bond_orders),
                box_matrix |-> None,
                frame_positions |-> <<>>]
  /\ UNCHANGED <<format, n_lines, cursor, error>>
  /\ UNCHANGED locVars
  /\ UNCHANGED otherThanLoc

NextMol ==
  \/ \E af \in CountFields, bf \in CountFields : MolHeader(af, bf)
  \/ \E line \in MolAtomLines : MolAtomLine(line)
  \/ \E line \in MolBondLines, oc \in BOOLEAN : MolBondLine(line, oc)
  \/ MolFinish

\* ------------------------------------------------------------------------
\* xyz.rs : the XYZ parser
\* ------------------------------------------------------------------------

\* atom lines: the number of whitespace-separated parts, the x, y, z parts
\* and the element of the symbol
XyzAtomLines ==
  { [nparts |-> 4, x |-> IntField(p[1]), y |-> IntField(p[2]),
     z |-> IntField(p[3]), element |-> 1] : p \in AtomPoints }
  \cup { [nparts |-> 3, x |-> IntField(0), y |-> IntField(0),
          z |-> IntField(0), element |-> 1],
         [nparts |-> 4, x |-> IntField(0), y |-> JunkField,
          z |-> IntField(0), element |-> 1] }

XyzCountFields == CountFields \cup {BlankField}

\* every block is taken as a frame
AnyAtomCount(count, first) == TRUE

\* line 78: n_atoms == first_n_atoms
SameAtomCount(count, first) == count = first

XyzLineBad(line) ==
  \/ line.nparts < 4
  \/ ParseField(line.x) = None \/ ParseField(line.y) = None
  \/ ParseField(line.z) = None

\* lines 13-16: the length check
XyzStart ==
  /\ format = "xyz" /\ outcome = "run" /\ phase = "start"
  /\ IF n_lines < 3
     THEN /\ ReturnErr("XYZ file too short")
          /\ UNCHANGED phase
     ELSE /\ phase' = "body"
          /\ UNCHANGED <<outcome, error, result>>
  /\ UNCHANGED <<format, n_lines, cursor>>
  /\ UNCHANGED <<n_atoms, n_bonds, positions, elements, bonds, bond_orders, file_values>>
  /\ UNCHANGED xyzVars
  /\ UNCHANGED xyzTextVars
  /\ UNCHANGED otherThanXyz

\* lines 83-99: after the block loop
XyzReturn ==
  IF first_positions = None
  THEN ReturnErr("XYZ file contains no atoms")
  ELSE /\ outcome' = "ok"
       /\ UNCHANGED error
       /\ result' = [n_atoms |-> first_n_atoms,
                     positions |-> first_positions[1],
                     elements |-> first_elements[1],
                     bonds |-> infer_bonds(first_positions[1], first_elements[1],
                                           first_n_atoms, {}),
                     n_file_bonds |-> 0,
                     bond_orders |-> None,
                     box_matrix |-> None,
                     frame_positions |-> frame_positions]

\* one iteration of the block loop (lines 24-81): the count line and, when
\* the block is complete, its atom lines; the loop's exit by break returns
XyzBlock(count, atom_lines) ==
  /\ format = "xyz" /\ outcome = "run" /\ phase = "body"
  /\ cursor < n_lines
  /\ IF count.kind = "blank"
     THEN /\ cursor' = cursor + 1
          /\ UNCHANGED <<outcome, error, result>>
          /\ UNCHANGED xyzVars
          /\ xyz_blanks' = xyz_blanks + 1
          /\ UNCHANGED <<xyz_blocks, xyz_tail>>
     ELSE IF ParseField(count) = None
          THEN /\ ReturnErr("cannot parse atom count")
               /\ UNCHANGED cursor
               /\ UNCHANGED xyzVars
               /\ UNCHANGED xyzTextVars
          ELSE IF cursor + 2 + count.val > n_lines
               THEN /\ XyzReturn
                    /\ UNCHANGED cursor
                    /\ UNCHANGED xyzVars
                    /\ xyz_tail' = "incomplete"
                    /\ UNCHANGED <<xyz_blocks, xyz_blanks>>
               ELSE IF \E k \in 1..count.val : XyzLineBad(atom_lines[k])
                    THEN /\ ReturnErr("XYZ atom line too short or bad coord")
                         /\ UNCHANGED cursor
                         /\ UNCHANGED xyzVars
                         /\ UNCHANGED xyzTextVars
                    ELSE LET block_positions ==
                               Flatten([k \in 1..count.val |->
                                 <<atom_lines[k].x.val, atom_lines[k].y.val,
                                   atom_lines[k].z.val>>])
                             block_elements ==
                               [k \in 1..count.val |-> atom_lines[k].element]
                         IN  /\ cursor' = cursor + 2 + count.val
                             /\ UNCHANGED <<outcome, error, result>>
                             /\ xyz_blocks' =
                                  Append(xyz_blocks,
                                         [count |-> count.val,
                                          positions |-> block_positions,
                                          elements |-> block_elements])
                             /\ UNCHANGED <<xyz_blanks, xyz_tail>>
                             /\ IF first_positions = None
                                THEN /\ first_n_atoms' = count.val
                                     /\ first_positions' = Some(block_positions)
                                     /\ first_elements' = Some(block_elements)
                                     /\ UNCHANGED frame_positions
                                ELSE IF SameAtomCount(count.val, first_n_atoms)
                                     THEN /\ frame_positions' =
                                               Append(frame_positions, block_positions)
                                          /\ UNCHANGED <<first_n_atoms, first_positions,
                                                         first_elements>>
                                     ELSE UNCHANGED xyzVars
  /\ UNCHANGED <<format, n_lines>>
  /\ UNCHANGED locVars
  /\ UNCHANGED otherThanXyz

\* the loop's exit at offset >= lines.len(), and the return
XyzFinish ==
  /\ format = "xyz" /\ outcome = "run" /\ phase = "body"
  /\ cursor >= n_lines
  /\ XyzReturn
  /\ UNCHANGED <<format, n_lines, cursor>>
  /\ UNCHANGED locVars
  /\ UNCHANGED xyzVars
  /\ UNCHANGED xyzTextVars
  /\ UNCHANGED otherThanXyz

\* the atom lines of a block that declares n atoms
XyzBlockLines(count) ==
  IF count.kind = "int" THEN [1..count.val -> XyzAtomLines] ELSE {<<>>}

NextXyz ==
  \/ XyzStart
  \/ \E count \in XyzCountFields :
       \E atom_lines \in XyzBlockLines(count) : XyzBlock(count, atom_lines)
  \/ XyzFinish

\* ------------------------------------------------------------------------
\* xtc.rs : XDR words, the bit reader, the integer packing
\* ------------------------------------------------------------------------

XTC_MAGIC == 1995

FIRSTIDX == 9

\* MAGICINTS[idx] is MAGICINTS[idx + 1] here
MAGICINTS ==
  << 0, 0, 0, 0, 0, 0, 0, 0, 0, 8,
     10, 12, 16, 20, 25, 32, 40, 50, 64, 80,
     101, 128, 161, 203, 256, 322, 406, 512, 645, 812,
     1024, 1290, 1625, 2048, 2580, 3250, 4096, 5060, 6501, 8192,
     10321, 13003, 16384, 20642, 26007, 32768, 41285, 52015, 65536, 82570,
     104031, 131072, 165140, 208063, 262144, 330280, 416127, 524287, 660561, 832255,
     1048576, 1321122, 1664510, 2097152, 2642245, 3329021, 4194304, 5284491, 6658042, 8388607,
     10568983, 13316085, 16777216 >>

\* A u32 of the bit reader is held as the sequence of its 32 bits, the
\* lowest first: w[b + 1] is bit b.  (<<>> \o f is f, as a sequence.)
Bit32 == 1..32

W32Zero == <<>> \o [b \in Bit32 |-> 0]

\* v as u32, for 0 <= v < 2^31
W32FromNat(v) ==
  <<>> \o [b \in Bit32 |-> IF b < 32 THEN (v \div (2^(b - 1))) % 2 ELSE 0]

RECURSIVE W32BitsValue(_, _)
W32BitsValue(w, b) ==
  IF b > 31 THEN 0 ELSE w[b] * (2^(b - 1)) + W32BitsValue(w, b + 1)

\* the value of a u32 below 2^31
W32ToNat(w) == W32BitsValue(w, 1)

\* w << s
W32Shl(w, s) == <<>> \o [b \in Bit32 |-> IF b > s THEN w[b - s] ELSE 0]

\* w >> s
W32Shr(w, s) == <<>> \o [b \in Bit32 |-> IF b + s <= 32 THEN w[b + s] ELSE 0]

\* v | w
W32Or(v, w) == <<>> \o [b \in Bit32 |-> IF v[b] = 1 \/ w[b] = 1 THEN 1 ELSE 0]

\* v & w
W32And(v, w) == <<>> \o [b \in Bit32 |-> IF v[b] = 1 /\ w[b] = 1 THEN 1 ELSE 0]

\* (1u32 << n) - 1, for n < 32
W32LowMask(n) == <<>> \o [b \in Bit32 |-> IF b <= n THEN 1 ELSE 0]

\* TakeByte without self.cnt += 1
StayOnByte(br) ==
  [br EXCEPT !.lastbyte = W32Or(W32Shl(@, 8), W32FromNat(br.buf[br.cnt + 1]))]

\* BitReader::new
NewBitReader == [buf |-> <<>>, cnt |-> 0, lastbits |-> 0, lastbyte |-> W32Zero]

\* self.lastbyte = (self.lastbyte << 8) | self.buf[self.cnt]; self.cnt += 1
TakeByte(br) ==
  [br EXCEPT !.lastbyte = W32Or(W32Shl(@, 8), W32FromNat(br.buf[br.cnt + 1])),
             !.cnt = @ + 1]

\* the loop of decode_bits over whole bytes (lines 105-110); oob: the read
\* of buf[cnt] is out of bounds
RECURSIVE DecodeWholeBytes(_, _, _)
DecodeWholeBytes(br, num_of_bits, num) ==
  IF num_of_bits < 8
  THEN [oob |-> FALSE, br |-> br, num_of_bits |-> num_of_bits, num |-> num]
  ELSE IF br.cnt >= Len(br.buf)
       THEN [oob |-> TRUE, br |-> br, num_of_bits |-> num_of_bits, num |-> num]
       ELSE LET br1 == TakeByte(br)
            IN  DecodeWholeBytes(br1, num_of_bits - 8,
                  W32Or(num, W32Shl(W32Shr(br1.lastbyte, br1.lastbits),
                                    num_of_bits - 8)))

\* decode_bits lines 111-120, after the loop over whole bytes left w
DecodeLastBits(w, mask) ==
  LET refill == w.br.lastbits < w.num_of_bits
  IN  IF w.oob \/ (w.num_of_bits > 0 /\ refill /\ w.br.cnt >= Len(w.br.buf))
      THEN [oob |-> TRUE, br |-> w.br, value |-> 0]
      ELSE IF w.num_of_bits > 0
           THEN LET br1 == IF refill
                           THEN [TakeByte(w.br) EXCEPT !.lastbits = @ + 8]
                           ELSE w.br
                    br2 == [br1 EXCEPT !.lastbits = @ - w.num_of_bits]
                    num == W32Or(w.num,
                             W32And(W32Shr(br2.lastbyte, br2.lastbits),
                                    W32LowMask(w.num_of_bits)))
                IN  [oob |-> FALSE, br |-> br2,
                     value |-> W32ToNat(W32And(num, mask))]
           ELSE [oob |-> FALSE, br |-> w.br,
                 value |-> W32ToNat(W32And(w.num, mask))]

\* BitReader::decode_bits, for num_of_bits < 32
decode_bits(br, num_of_bits) ==
  DecodeLastBits(DecodeWholeBytes(br, num_of_bits, W32Zero),
                 W32LowMask(num_of_bits))

\* decode_ints, lines 128-136: the bytes of the packed number, lowest first
RECURSIVE DecodePackedBytes(_, _, _)
DecodePackedBytes(br, remaining_bits, bytes) ==
  IF remaining_bits > 8
  THEN LET d == decode_bits(br, 8)
       IN  IF d.oob THEN [oob |-> TRUE, br |-> d.br, bytes |-> bytes]
           ELSE DecodePackedBytes(d.br, remaining_bits - 8, Append(bytes, d.value))
  ELSE IF remaining_bits > 0
       THEN LET d == decode_bits(br, remaining_bits)
            IN  [oob |-> d.oob, br |-> d.br,
                 bytes |-> IF d.oob THEN bytes ELSE Append(bytes, d.value)]
       ELSE [oob |-> FALSE, br |-> br, bytes |-> bytes]

\* decode_ints, lines 141-146: one division of the packed number by size,
\* from byte j down; div0: size is 0 and there is a byte to divide
RECURSIVE RadixPass(_, _, _, _)
RadixPass(bytes, j, num, size) ==
  IF j = 0 THEN [div0 |-> FALSE, bytes |-> bytes, num |-> num]
  ELSE IF size = 0 THEN [div0 |-> TRUE, bytes |-> bytes, num |-> num]
       ELSE LET shifted == num * 256 + bytes[j]
                p == shifted \div size
            IN  RadixPass([bytes EXCEPT ![j] = p], j - 1, shifted - p * size, size)

\* decode_ints lines 139-154: the numbers of the packed bytes d.bytes
UnpackInts(d, sizes) ==
  LET p3 == RadixPass(d.bytes, Len(d.bytes), 0, sizes[3])
      p2 == RadixPass(p3.bytes, Len(p3.bytes), 0, sizes[2])
      ByteAt(j) == IF j <= Len(p2.bytes) THEN p2.bytes[j] ELSE 0
  IN  [oob |-> d.oob, br |-> d.br,
       div0 |-> ~d.oob /\ (p3.div0 \/ p2.div0),
       nums |-> IF d.oob \/ p3.div0 \/ p2.div0 THEN <<0, 0, 0>>
                ELSE <<ByteAt(1) + ByteAt(2) * 256 + ByteAt(3) * 65536
                         + ByteAt(4) * 16777216,
                       p2.num, p3.num>>]

\* decode_ints dividing by the sizes in the opposite order
DecodeIntsReversed(br, num_of_bits, sizes) ==
  UnpackInts(DecodePackedBytes(br, num_of_bits, <<>>),
             <<sizes[3], sizes[2], sizes[1]>>)

\* BitReader::decode_ints with num_of_ints = 3
decode_ints(br, num_of_bits, sizes) ==
  UnpackInts(DecodePackedBytes(br, num_of_bits, <<>>), sizes)

RECURSIVE CountBits(_, _, _)
CountBits(v, num, nbits) ==
  IF v >= num /\ nbits < 32 THEN CountBits(v, num * 2, nbits + 1) ELSE nbits

\* sizeofint
sizeofint(size) == CountBits(size, 1, 0)

\* sizeofints, lines 176-186: bytes times size
RECURSIVE MulBytes(_, _, _, _)
MulBytes(bytes, bytecnt, tmp, size) ==
  IF bytecnt <= Len(bytes)
  THEN LET t == bytes[bytecnt] * size + tmp
       IN  MulBytes([bytes EXCEPT ![bytecnt] = t % 256], bytecnt + 1, t \div 256, size)
  ELSE IF tmp # 0
       THEN MulBytes(Append(bytes, tmp % 256), bytecnt + 1, tmp \div 256, size)
       ELSE bytes

\* sizeofints with num_of_ints = 3
sizeofints(sizes) ==
  LET product == MulBytes(MulBytes(MulBytes(<<1>>, 1, 0, sizes[1]),
                                   1, 0, sizes[2]), 1, 0, sizes[3])
      last == Len(product) - 1
  IN  CountBits(product[last + 1], 1, 0) + last * 8

\* ------------------------------------------------------------------------
\* xtc.rs : parse_xtc and decompress_coords
\* ------------------------------------------------------------------------

\* frames the data holds
MaxXtcFrames == 3

\* atom records (coordinate triplets) the data holds over all its frames
MaxXtcAtoms == 10

\* bytes of a frame's compressed bitstream
MaxBitstreamBytes == 5

\* the magic words, natoms words and time words of the frame headers
XtcMagics == {XTC_MAGIC, 0}

\* as i32; a negative word w is, after `as usize` (lines 203, 256, 405),
\* the usize 2^N + w: the model keeps writing it w
XtcAtomCounts == {-1, 0, 1, 2, 10}

\* v <= k of a usize v that was an i32 word
UsizeAtMost(v, k) == v >= 0 /\ v <= k

\* line 211, natoms * 3: with overflow checks (a debug build) the product of
\* a usize that was a negative word panics, without them it wraps
Size3Overflows(natoms, overflow_checks) == overflow_checks /\ natoms < 0

\* line 274, vec![0i32; size3]: the wrapped size3 of a usize that was a
\* negative word is more than a Vec can hold
CapacityOverflows(natoms) == natoms < 0

\* the time word and the box words (hundredths of nm) of a frame header
XtcStamps ==
  { [time |-> 0, box |-> <<300, 0, 0, 0, 300, 0, 0, 0, 300>>],
    [time |-> 10, box |-> <<400, 0, 0, 0, 400, 0, 0, 0, 400>>] }

\* the floats of an atom of a plain coordinate block (hundredths of nm)
XtcPoints == { <<0, 0, 0>>, <<15, 0, 0>> }

\* the precision word, times 1: a coordinate integer c stands for
\* c / precision nm
XtcPrecisions == {0, 100}

\* the minint and maxint words
XtcRanges ==
  { [minint |-> <<0, 0, 0>>, maxint |-> <<0, 0, 0>>],
    [minint |-> <<5, 0, 0>>, maxint |-> <<6, 0, 0>>] }

\* the smallidx word
XtcSmallIdx == {10, 73}

\* the nbytes word: an empty bitstream or a longest one
XtcStreamLengths == {0, MaxBitstreamBytes}

\* the bytes of the bitstream
XtcBytes == {0, 18, 255}

XtcIdle ==
  /\ xdr_pos = 0
  /\ first_time = 0
  /\ second_time = 0
  /\ last_box = None
  /\ frame_natoms = <<>>
  /\ frame_stamps = <<>>

DecIdle ==
  /\ precision = 0
  /\ minint = <<0, 0, 0>>
  /\ sizeint = <<0, 0, 0>>
  /\ bitsizeint = <<0, 0, 0>>
  /\ bitsize = 0
  /\ smallidx = 0
  /\ smaller = 0
  /\ smallnum = 0
  /\ sizesmall = <<0, 0, 0>>
  /\ nbytes = 0
  /\ bits = NewBitReader
  /\ coords = <<>>
  /\ output = <<>>
  /\ prevcoord = <<0, 0, 0>>
  /\ d_i = 0
  /\ run = 0
  /\ d_k = 0
  /\ is_smaller = 0
  /\ last_slot = -1

\* a panic: the call neither returns Ok nor Err
Panics(msg) ==
  /\ outcome' = "panic"
  /\ error' = msg
  /\ UNCHANGED result

\* line 411 never holds
NeverMismatch(natoms, first) == FALSE

\* line 422 holds for every frame after the first
AnyLaterFrame(frames_read) == frames_read >= 1

\* line 422: frame_positions.len() == 1
IsSecondFrame(frames_read) == frames_read = 1

\* lines 409-411: n_atoms == 0 marks the first frame
NatomsMismatch(natoms, first) == first # 0 /\ natoms # first

\* parse_xtc line 436: frame_positions.push(positions); raw holds the
\* coordinates as the data stores them
PushFrame(frame, raw) ==
  /\ frame_positions' = Append(frame_positions, frame)
  /\ file_values' = Append(file_values, raw)
  /\ phase' = "loop"

\* One pass of the loop of parse_xtc up to the coordinates (lines 395-435)
\* and the first lines of decompress_coords (203-211).  words: the whole
\* 4-byte words the data holds from xdr.pos on, at least 4 by the loop test.
XtcFrameHeader(words, magic, natoms, time, box, lsize, overflow_checks) ==
  /\ format = "xtc" /\ outcome = "run" /\ phase = "loop"
  /\ words >= 4
  /\ Len(frame_positions) < MaxXtcFrames
  /\ Len(frame_positions) * n_atoms + natoms <= MaxXtcAtoms
  /\ LET atoms == IF n_atoms = 0 THEN natoms ELSE n_atoms
         verdict ==
           IF magic # XTC_MAGIC THEN "bad XTC magic"
           ELSE IF natoms = 0 THEN "zero atoms in XTC frame"
           ELSE IF NatomsMismatch(natoms, n_atoms) THEN "inconsistent atom count"
           ELSE IF words < 14 THEN "unexpected end of data reading i32"
           ELSE IF lsize # atoms THEN "coord block size != natoms"
           ELSE IF Size3Overflows(atoms, overflow_checks)
                THEN "attempt to multiply with overflow"
           ELSE "go"
     IN  /\ frame_natoms' = IF magic = XTC_MAGIC
                            THEN Append(frame_natoms, natoms)
                            ELSE frame_natoms
         /\ IF verdict = "go"
            THEN /\ n_atoms' = atoms
                 /\ first_time' = IF frame_positions = <<>> THEN time ELSE first_time
                 /\ second_time' = IF IsSecondFrame(Len(frame_positions)) THEN time
                                   ELSE second_time
                 /\ frame_stamps' = Append(frame_stamps, [time |-> time, box |-> box])
                 /\ last_box' = Some([c \in 1..9 |-> NmToAngstrom(box[c])])
                 /\ xdr_pos' = xdr_pos + 56
                 /\ phase' = IF UsizeAtMost(atoms, 9) THEN "plain" ELSE "compressed"
                 /\ coords' = <<>>
                 /\ UNCHANGED <<outcome, error, result>>
            ELSE /\ IF verdict = "attempt to multiply with overflow"
                    THEN Panics(verdict)
                    ELSE ReturnErr(verdict)
                 /\ UNCHANGED <<n_atoms, first_time, second_time, last_box, xdr_pos,
                                phase, coords, frame_stamps>>
  /\ UNCHANGED <<format, n_lines, cursor, file_values, frame_positions>>
  /\ UNCHANGED <<precision, minint, sizeint, bitsizeint, bitsize, smallidx, smaller,
                 smallnum, sizesmall, nbytes, bits, output, prevcoord, d_i, run,
                 d_k, is_smaller, last_slot>>
  /\ UNCHANGED otherThanXtc

\* One atom of the plain block (natoms <= 9, lines 214-220): three read_f32.
\* enough: the data holds three more words.  After the last atom
\* decompress_coords returns the floats as read.
XtcPlainAtom(enough, point) ==
  /\ format = "xtc" /\ outcome = "run" /\ phase = "plain"
  /\ IF ~enough
     THEN /\ ReturnErr("unexpected end of data reading i32")
          /\ UNCHANGED <<xdr_pos, coords, phase, frame_positions, file_values>>
     ELSE /\ coords' = coords \o point
          /\ xdr_pos' = xdr_pos + 12
          /\ IF Len(coords) + 3 = n_atoms * 3
             THEN PushFrame(coords \o point, coords \o point)
             ELSE UNCHANGED <<phase, frame_positions, file_values>>
          /\ UNCHANGED <<outcome, error, result>>
  /\ UNCHANGED <<format, n_lines, cursor, n_atoms>>
  /\ UNCHANGED <<first_time, second_time, last_box, frame_natoms, frame_stamps>>
  /\ UNCHANGED <<precision, minint, sizeint, bitsizeint, bitsize, smallidx, smaller,
                 smallnum, sizesmall, nbytes, bits, output, prevcoord, d_i, run,
                 d_k, is_smaller, last_slot>>
  /\ UNCHANGED otherThanXtc

\* coords[..] as f32 * inv_precision, in hundredths of nm
Dequantize(c, prec) == (c * 100) \div prec

\* lines 358-370: the new smallidx, smaller, smallnum and MAGICINTS[smallidx];
\* oob: an index into MAGICINTS is out of bounds (a negative
\* smallidx + is_smaller is a huge usize)
AdjustWindow(idx, smlr, snum, ism) ==
  LET new_idx == idx + ism
  IN  IF new_idx < 0 \/ new_idx > 72
      THEN [oob |-> TRUE, smallidx |-> idx, smaller |-> smlr, smallnum |-> snum,
            magic |-> 0]
      ELSE [oob |-> FALSE,
            smallidx |-> new_idx,
            smaller |-> IF ism < 0
                        THEN (IF new_idx > FIRSTIDX
                              THEN MAGICINTS[new_idx] \div 2 ELSE 0)
                        ELSE IF ism > 0 THEN snum ELSE smlr,
            smallnum |-> IF ism < 0 THEN smlr
                         ELSE IF ism > 0 THEN MAGICINTS[new_idx + 1] \div 2
                         ELSE snum,
            magic |-> MAGICINTS[new_idx + 1]]

\* line 371 never holds
NeverInvalid(magic) == FALSE

\* line 371: sizesmall[0] == 0
SizesmallInvalid(magic) == magic = 0

\* lines 257-265: smaller, smallnum and sizesmall of a smallidx word within
\* the table
InitialWindow(sidx) ==
  LET tmp_idx == Max2(FIRSTIDX, IF sidx > 0 THEN sidx - 1 ELSE 0)
  IN  [smaller |-> MAGICINTS[tmp_idx + 1] \div 2,
       smallnum |-> MAGICINTS[sidx + 1] \div 2,
       sizesmall |-> [c \in 1..3 |-> MAGICINTS[sidx + 1]]]

\* lines 357-381: the end of a pass of the decoding loop, with i and output
\* as the pass leaves them: the window, the loop test and, when the loop is
\* over, the conversion and the return to parse_xtc
EndPass(ism, new_i, new_output) ==
  LET w == AdjustWindow(smallidx, smaller, smallnum, ism)
  IN  IF w.oob
      THEN /\ Panics("index out of bounds: MAGICINTS")
           /\ UNCHANGED <<smallidx, smaller, smallnum, sizesmall, phase,
                          frame_positions, file_values>>
      ELSE /\ smallidx' = w.smallidx
           /\ smaller' = w.smaller
           /\ smallnum' = w.smallnum
           /\ sizesmall' = <<w.magic, w.magic, w.magic>>
           /\ IF SizesmallInvalid(w.magic)
              THEN /\ ReturnErr("invalid sizesmall in xdr3dfcoord")
                   /\ UNCHANGED <<phase, frame_positions, file_values>>
              ELSE IF new_i >= n_atoms
                   THEN /\ PushFrame([c \in 1..Len(new_output) |->
                                        NmToAngstrom(new_output[c])], new_output)
                        /\ UNCHANGED <<outcome, error, result>>
                   ELSE /\ phase' = "large"
                        /\ UNCHANGED <<frame_positions, file_values>>
                        /\ UNCHANGED <<outcome, error, result>>

\* decompress_coords lines 222-278 (natoms > 9).  words: the whole words the
\* data holds from xdr.pos on; enough: after the nbytes word it holds the
\* padded bitstream.
XtcCompressedHeader(words, prec, range, sidx, nb, enough) ==
  /\ format = "xtc" /\ outcome = "run" /\ phase = "compressed"
  /\ LET size == [c \in 1..3 |-> range.maxint[c] - range.minint[c] + 1]
         wide == \E c \in 1..3 : size[c] > 16777215
         verdict ==
           IF words < 1 THEN "unexpected end of data reading i32"
           ELSE IF prec = 0 THEN "zero precision in XTC"
           ELSE IF words < 8 THEN "unexpected end of data reading i32"
           ELSE IF sidx < 0 \/ sidx > 72 THEN "index out of bounds: MAGICINTS"
           ELSE IF words < 9 THEN "unexpected end of data reading i32"
           ELSE IF ~enough THEN "unexpected end of data reading opaque"
           ELSE IF CapacityOverflows(n_atoms) THEN "capacity overflow"
           ELSE "go"
     IN  IF verdict = "go"
         THEN /\ precision' = prec
              /\ minint' = range.minint
              /\ sizeint' = size
              /\ bitsizeint' = IF wide THEN [c \in 1..3 |-> sizeofint(size[c])]
                               ELSE <<0, 0, 0>>
              /\ bitsize' = IF wide THEN 0 ELSE sizeofints(size)
              /\ smallidx' = sidx
              /\ smaller' = InitialWindow(sidx).smaller
              /\ smallnum' = InitialWindow(sidx).smallnum
              /\ sizesmall' = InitialWindow(sidx).sizesmall
              /\ nbytes' = nb
              /\ bits' = NewBitReader
              /\ coords' = [c \in 1..(n_atoms * 3) |-> 0]
              /\ output' = <<>>
              /\ prevcoord' = <<0, 0, 0>>
              /\ d_i' = 0
              /\ xdr_pos' = xdr_pos + 36 + 4 * CeilDiv(nb, 4)
              /\ phase' = "large"
              /\ UNCHANGED <<outcome, error, result>>
         ELSE /\ IF verdict \in {"index out of bounds: MAGICINTS", "capacity overflow"}
                 THEN Panics(verdict)
                 ELSE ReturnErr(verdict)
              /\ UNCHANGED <<precision, minint, sizeint, bitsizeint, bitsize, smallidx,
                             smaller, smallnum, sizesmall, nbytes, bits, coords,
                             output, prevcoord, d_i, xdr_pos, phase>>
  /\ UNCHANGED <<format, n_lines, cursor, n_atoms, file_values, frame_positions>>
  /\ UNCHANGED <<first_time, second_time, last_box, frame_natoms, frame_stamps>>
  /\ UNCHANGED <<run, d_k, is_smaller, last_slot>>
  /\ UNCHANGED otherThanXtc

\* Of the bytes of the bitstream, buf holds those read so far; a step reads
\* on into the bytes more.  The step is taken with exactly the bytes it
\* reads: a read beyond them is out of bounds only at the end of the stream.
ReadsExactly(more, with_more, oob, cnt_after) ==
  IF oob THEN Len(with_more.buf) = nbytes
  ELSE more = <<>> \/ cnt_after = Len(with_more.buf)

\* lines 282-291: the large coordinate
DecodeLarge(br) ==
  IF bitsize = 0
  THEN LET x == decode_bits(br, bitsizeint[1])
           y == decode_bits(x.br, bitsizeint[2])
           z == decode_bits(y.br, bitsizeint[3])
       IN  [oob |-> x.oob \/ y.oob \/ z.oob, div0 |-> FALSE, br |-> z.br,
            nums |-> <<x.value, y.value, z.value>>]
  ELSE decode_ints(br, bitsize, sizeint)

\* lines 303-311: the flag and the run value read after the large
\* coordinate
ReadRun(large, flag, run_val) ==
  LET has_run == flag.value = 1
  IN  [oob |-> large.oob \/ flag.oob \/ (has_run /\ run_val.oob),
       div0 |-> large.div0,
       nums |-> large.nums,
       br |-> IF has_run THEN run_val.br ELSE flag.br,
       run |-> IF has_run THEN run_val.value - (run_val.value % 3) ELSE 0,
       is_smaller |-> IF has_run THEN (run_val.value % 3) - 1 ELSE 0]

\* line 307: let run_val = bits.decode_bits(5)
ReadFlag(large, flag) == ReadRun(large, flag, decode_bits(flag.br, 5))

\* line 303: let flag = bits.decode_bits(1)
ReadLarge(large) == ReadFlag(large, decode_bits(large.br, 1))

\* lines 280-311: the reads of a pass of the decoding loop
ReadPassHead(br) == ReadLarge(DecodeLarge(br))

\* The start of a pass of the decoding loop (lines 279-311): the large
\* coordinate, the flag and the run value; without a run also the rest of
\* the pass (lines 351-374).
XtcLarge(more) ==
  /\ format = "xtc" /\ outcome = "run" /\ phase = "large"
  /\ Len(bits.buf) + Len(more) <= nbytes
  /\ LET br0 == [bits EXCEPT !.buf = @ \o more]
         head == ReadPassHead(br0)
         oob == head.oob
         br_end == head.br
         new_run == head.run
         new_is_smaller == head.is_smaller
         this == d_i * 3
         triple == [c \in 1..3 |-> head.nums[c] + minint[c]]
         new_output == output \o [c \in 1..3 |-> Dequantize(triple[c], precision)]
     IN  /\ ReadsExactly(more, br0, oob, br_end.cnt)
         /\ IF oob \/ head.div0
            THEN /\ Panics(IF oob THEN "index out of bounds: buf"
                           ELSE "attempt to divide by zero")
                 /\ UNCHANGED <<bits, coords, prevcoord, last_slot, run, is_smaller,
                                d_k, d_i, output, smallidx, smaller, smallnum,
                                sizesmall, phase, frame_positions, file_values>>
            ELSE /\ bits' = br_end
                 /\ coords' = [coords EXCEPT ![this + 1] = triple[1],
                                             ![this + 2] = triple[2],
                                             ![this + 3] = triple[3]]
                 /\ prevcoord' = triple
                 /\ last_slot' = d_i
                 /\ d_i' = d_i + 1
                 /\ run' = new_run
                 /\ is_smaller' = new_is_smaller
                 /\ d_k' = 0
                 /\ IF new_run > 0
                    THEN /\ phase' = "small"
                         /\ UNCHANGED <<output, smallidx, smaller, smallnum, sizesmall,
                                        frame_positions, file_values>>
                         /\ UNCHANGED <<outcome, error, result>>
                    ELSE /\ output' = new_output
                         /\ EndPass(new_is_smaller, d_i + 1, new_output)
  /\ UNCHANGED <<format, n_lines, cursor, n_atoms>>
  /\ UNCHANGED xtcVars
  /\ UNCHANGED <<precision, minint, sizeint, bitsizeint, bitsize, nbytes>>
  /\ UNCHANGED otherThanXtc

\* One pass of the run loop (lines 315-350); after the last one the rest of
\* the pass of the decoding loop (lines 357-374).
XtcSmall(more) ==
  /\ format = "xtc" /\ outcome = "run" /\ phase = "small"
  /\ Len(bits.buf) + Len(more) <= nbytes
  /\ LET br0 == [bits EXCEPT !.buf = @ \o more]
         ri == d_i * 3
         decoded == decode_ints(br0, smallidx, sizesmall)
         small == [c \in 1..3 |-> decoded.nums[c] + prevcoord[c] - smallnum]
         stored == IF d_k = 0 THEN prevcoord ELSE small
         emitted == IF d_k = 0 THEN small \o prevcoord ELSE small
         new_output ==
           output \o [c \in 1..Len(emitted) |-> Dequantize(emitted[c], precision)]
     IN  /\ ReadsExactly(more, br0, decoded.oob, decoded.br.cnt)
         /\ IF decoded.oob \/ decoded.div0
            THEN /\ Panics(IF decoded.oob THEN "index out of bounds: buf"
                           ELSE "attempt to divide by zero")
                 /\ UNCHANGED <<bits, coords, prevcoord, last_slot, d_k, d_i, output,
                                smallidx, smaller, smallnum, sizesmall, phase,
                                frame_positions, file_values>>
            ELSE IF ri >= Len(coords)
                 THEN /\ Panics("index out of bounds: coords")
                      /\ bits' = decoded.br
                      /\ last_slot' = d_i
                      /\ UNCHANGED <<coords, prevcoord, d_k, d_i, output, smallidx,
                                     smaller, smallnum, sizesmall, phase,
                                     frame_positions, file_values>>
                 ELSE /\ bits' = decoded.br
                      /\ last_slot' = d_i
                      /\ coords' = [coords EXCEPT ![ri + 1] = stored[1],
                                                  ![ri + 2] = stored[2],
                                                  ![ri + 3] = stored[3]]
                      /\ prevcoord' = small
                      /\ d_i' = d_i + 1
                      /\ d_k' = d_k + 3
                      /\ output' = new_output
                      /\ IF d_k + 3 >= run
                         THEN EndPass(is_smaller, d_i + 1, new_output)
                         ELSE /\ UNCHANGED <<smallidx, smaller, smallnum, sizesmall,
                                             phase, frame_positions, file_values>>
                              /\ UNCHANGED <<outcome, error, result>>
  /\ UNCHANGED <<format, n_lines, cursor, n_atoms>>
  /\ UNCHANGED xtcVars
  /\ UNCHANGED <<precision, minint, sizeint, bitsizeint, bitsize, nbytes, run,
                 is_smaller>>
  /\ UNCHANGED otherThanXtc

\* lines 395 and 439-455: fewer than 16 bytes remain; the return
XtcFinish ==
  /\ format = "xtc" /\ outcome = "run" /\ phase = "loop"
  /\ IF frame_positions = <<>>
     THEN ReturnErr("no frames found in XTC file")
     ELSE /\ outcome' = "ok"
          /\ UNCHANGED error
          /\ result' = [n_atoms |-> n_atoms,
                        n_frames |-> Len(frame_positions),
                        timestep_ps |-> IF Len(frame_positions) > 1
                                        THEN second_time - first_time ELSE 1,
                        box_matrix |-> last_box,
                        frame_positions |-> frame_positions]
  /\ UNCHANGED <<format, n_lines, cursor, phase, n_atoms, file_values, frame_positions>>
  /\ UNCHANGED xtcVars
  /\ UNCHANGED decVars
  /\ UNCHANGED otherThanXtc

NextXtc ==
  \/ \E words \in 4..14, magic \in XtcMagics, natoms \in XtcAtomCounts,
        stamp \in XtcStamps, lsize \in XtcAtomCounts, overflow_checks \in BOOLEAN :
       XtcFrameHeader(words, magic, natoms, stamp.time, stamp.box, lsize,
                      overflow_checks)
  \/ \E enough \in BOOLEAN, point \in XtcPoints : XtcPlainAtom(enough, point)
  \/ \E words \in 0..9, prec \in XtcPrecisions, range \in XtcRanges,
        sidx \in XtcSmallIdx, nb \in XtcStreamLengths, enough \in BOOLEAN :
       XtcCompressedHeader(words, prec, range, sidx, nb, enough)
  \/ \E more \in SeqsUpTo(XtcBytes, 2) : XtcLarge(more)
  \/ \E more \in SeqsUpTo(XtcBytes, 2) : XtcSmall(more)
  \/ XtcFinish

\* ------------------------------------------------------------------------
\* crates/megane-core/src/top.rs: parse_top_bonds
\* ------------------------------------------------------------------------
\* A line of text is a sequence of pieces: a blank " ", one of the characters
\* ";", "[", "]", "+", a decimal digit, or a word of other characters taken
\* whole.  The string operations of the parser act on the pieces.

\* lines of a text drawn line by line
MaxTopLines == 4

Digits == <<"0", "1", "2", "3", "4", "5", "6", "7", "8", "9">>

IsDigit(p) == \E d \in 1..Len(Digits) : Digits[d] = p

DigitValue(p) == (CHOOSE d \in 1..Len(Digits) : Digits[d] = p) - 1

\* str::trim_start_matches
RECURSIVE TrimStartMatches(_, _)
TrimStartMatches(line, p) ==
  IF line # <<>> /\ Head(line) = p THEN TrimStartMatches(Tail(line), p) ELSE line

\* str::trim_end_matches
RECURSIVE TrimEndMatches(_, _)
TrimEndMatches(line, p) ==
  IF line # <<>> /\ line[Len(line)] = p
  THEN TrimEndMatches(SubSeq(line, 1, Len(line) - 1), p)
  ELSE line

\* str::trim
Trim(line) == TrimEndMatches(TrimStartMatches(line, " "), " ")

\* str::to_lowercase, on the words of the texts that hold capitals
LowerPiece(p) ==
  IF p \in {"BONDS", "Bonds"} THEN "bonds"
  ELSE IF p = "N" THEN "n"
  ELSE IF p = "ALA" THEN "ala"
  ELSE IF p = "Comment" THEN "comment"
  ELSE p

ToLowercase(line) == [k \in 1..Len(line) |-> LowerPiece(line[k])]

\* str::find: the position of the first p, 0 for None
Find(line, p) ==
  IF \E k \in 1..Len(line) : line[k] = p
  THEN CHOOSE k \in 1..Len(line) :
         line[k] = p /\ \A l \in 1..(k - 1) : line[l] # p
  ELSE 0

\* str::split_whitespace: the maximal runs of pieces other than blanks
RECURSIVE SplitWhitespace(_)
SplitWhitespace(line) ==
  LET t == TrimStartMatches(line, " ")
      stop == Find(t, " ")
  IN  IF t = <<>> THEN <<>>
      ELSE IF stop = 0 THEN <<t>>
      ELSE <<SubSeq(t, 1, stop - 1)>> \o SplitWhitespace(SubSeq(t, stop, Len(t)))

RECURSIVE DecimalValue(_)
DecimalValue(digits) ==
  IF digits = <<>> THEN 0
  ELSE DecimalValue(SubSeq(digits, 1, Len(digits) - 1)) * 10
         + DigitValue(digits[Len(digits)])

\* str::parse::<u32>().ok(), for tokens of fewer than ten digits: an
\* optional "+", then one digit or more
ParseU32(token) ==
  LET digits == IF token # <<>> /\ Head(token) = "+" THEN Tail(token) ELSE token
  IN  IF digits = <<>> \/ \E k \in 1..Len(digits) : ~IsDigit(digits[k])
      THEN None
      ELSE Some(DecimalValue(digits))

\* parts.next().and_then(|s| s.parse().ok()) for the k-th call of next
NextU32(parts, k) == IF k > Len(parts) THEN None ELSE ParseU32(parts[k])

\* line 26 with every header taken for [ bonds ]
AnyHeaderIsBonds(section_name) == TRUE

\* line 26: section_name == "bonds"
SectionIsBonds(section_name) == section_name = <<"bonds">>

\* lines 21-25
SectionName(trimmed) ==
  ToLowercase(Trim(TrimEndMatches(TrimStartMatches(trimmed, "["), "]")))

\* line 59 with the last index left out
IndexBelowLast(b, n) == b + 1 < n

\* line 59: (b as usize) < n_atoms
IndexInRange(b, n) == b < n

\* lines 36-62: the bonds a line of the [ bonds ] section adds
BondOfLine(trimmed, n) ==
  LET pos == Find(trimmed, ";")
      data == IF pos # 0 THEN SubSeq(trimmed, 1, pos - 1) ELSE trimmed
      parts == SplitWhitespace(data)
      ai == NextU32(parts, 1)
      aj == NextU32(parts, 2)
  IN  IF ai = None \/ aj = None THEN <<>>
      ELSE IF ai[1] = 0 \/ aj[1] = 0 THEN <<>>
      ELSE LET a == Min2(ai[1] - 1, aj[1] - 1)
               b == Max2(ai[1] - 1, aj[1] - 1)
           IN  IF IndexInRange(b, n) THEN << <<a, b>> >> ELSE <<>>

\* n blanks
Sp(n) == [k \in 1..n |-> " "]

\* the lines a text is drawn from
TopLines ==
  { <<" ">>,
    <<";", " ", "1", " ", "2">>,
    <<"[", " ", "bonds", " ", "]">>,
    <<" ", "[", "BONDS", "]">>,
    <<"[", " ", "atoms", " ", "]">>,
    <<"[", " ", "bonds", " ", "]", " ", ";", "c">>,
    <<" ", "1", " ", "2", " ", "1", " ", ";", "c">>,
    <<"3", " ", "+", "2">>,
    <<"1", " ", "1">>,
    <<"0", " ", "1">>,
    <<"1", " ", ";", "2">> }

\* the n_atoms of a call on a text drawn from TopLines
TopAtomCounts == {1, 3}

\* the text of test_parse_top_bonds (lines 75-89), as text.lines() yields it
SelfTestText ==
  << <<>>,
     <<";", " ", "Comment", " ", "line">>,
     <<"[", " ", "moleculetype", " ", "]">>,
     <<"protein", " ", " ", "3">>,
     <<>>,
     <<"[", " ", "atoms", " ", "]">>,
     Sp(5) \o <<"1">> \o Sp(2) \o <<"N">> \o Sp(4) \o <<"1">> \o Sp(2)
       \o <<"ALA">> \o Sp(2) \o <<"N">> \o Sp(4) \o <<"1">> \o Sp(2)
       \o <<"-0.3">> \o Sp(3) \o <<"14.01">>,
     <<>>,
     <<"[", " ", "bonds", " ", "]">>,
     Sp(5) \o <<"1">> \o Sp(5) \o <<"2">> \o Sp(5) \o <<"1">> \o Sp(2)
       \o <<";", " ", "bond", " ", "1-2">>,
     Sp(5) \o <<"2">> \o Sp(5) \o <<"3">> \o Sp(5) \o <<"1">> \o Sp(2)
       \o <<";", " ", "bond", " ", "2-3">>,
     Sp(4) \o <<"1", "0">> \o Sp(4) \o <<"1", "1">> \o Sp(5) \o <<"1">> \o Sp(2)
       \o <<";", " ", "bond", " ", "10-11">>,
     <<>>,
     <<"[", " ", "angles", " ", "]">>,
     Sp(5) \o <<"1">> \o Sp(5) \o <<"2">> \o Sp(5) \o <<"3">> \o Sp(5) \o <<"1">> >>

\* the n_atoms of the calls on the self-test text (lines 90 and the claim's 3)
SelfTestAtomCounts == {3, 20}

CallsIdle ==
  /\ calls = <<>>
  /\ packed = <<>>

TopIdle ==
  /\ top_phase = "idle"
  /\ top_n_atoms = 0
  /\ in_bonds_section = FALSE
  /\ top_bonds = <<>>
  /\ top_text = <<>>
  /\ top_rest = None

\* One pass of the loop over text.lines() (lines 11-63).  The text is either
\* a given one, top_rest holding what is left of it, or drawn line by line.
TopLine(line) ==
  /\ top_phase = "lines"
  /\ IF top_rest = None
     THEN /\ line \in TopLines
          /\ Len(top_text) < MaxTopLines
          /\ UNCHANGED top_rest
     ELSE /\ top_rest[1] # <<>>
          /\ line = Head(top_rest[1])
          /\ top_rest' = Some(Tail(top_rest[1]))
  /\ top_text' = Append(top_text, line)
  /\ LET trimmed == Trim(line)
     IN  IF trimmed = <<>> \/ Head(trimmed) = ";"
         THEN UNCHANGED <<in_bonds_section, top_bonds>>
         ELSE IF Head(trimmed) = "["
              THEN /\ in_bonds_section' = SectionIsBonds(SectionName(trimmed))
                   /\ UNCHANGED top_bonds
              ELSE IF ~in_bonds_section
                   THEN UNCHANGED <<in_bonds_section, top_bonds>>
                   ELSE /\ top_bonds' = top_bonds \o BondOfLine(trimmed, top_n_atoms)
                        /\ UNCHANGED in_bonds_section
  /\ UNCHANGED <<top_phase, top_n_atoms>>
  /\ UNCHANGED otherThanTop

\* line 65: the lines are over; bonds is returned
TopReturn ==
  /\ top_phase = "lines"
  /\ IF top_rest = None THEN TRUE ELSE top_rest[1] = <<>>
  /\ top_phase' = "returned"
  /\ UNCHANGED <<top_n_atoms, in_bonds_section, top_bonds, top_text, top_rest>>
  /\ UNCHANGED otherThanTop

TopAnyLine == TopLines \cup {SelfTestText[k] : k \in 1..Len(SelfTestText)}

NextTop ==
  \/ \E line \in TopAnyLine : TopLine(line)
  \/ TopReturn

\* ------------------------------------------------------------------------
\* Specifications
\* ------------------------------------------------------------------------

InitBonds == BondIdle /\ TextIdle /\ PdbIdle /\ LocIdle /\ XyzIdle /\ XtcIdle /\ DecIdle /\ TopIdle /\ CallsIdle

SpecBonds == InitBonds /\ [][NextBonds]_vars

\* a call of the parser for format f on a text of n lines
TextCall(f, n) ==
  /\ format = f
  /\ n_lines = n
  /\ cursor = 0
  /\ outcome = "run"
  /\ error = ""
  /\ result = NoResult

InitPdb == BondIdle /\ PdbIdle /\ LocIdle /\ XyzIdle /\ XtcIdle /\ DecIdle /\ TopIdle /\ CallsIdle /\ TextCall("pdb", 0)

SpecPdb == InitPdb /\ [][NextPdb]_vars

InitMol ==
  /\ BondIdle /\ PdbIdle /\ LocIdle /\ XyzIdle /\ XtcIdle /\ DecIdle /\ TopIdle /\ CallsIdle
  /\ \E n \in 0..MaxTextLines : TextCall("mol", n)

SpecMol == InitMol /\ [][NextMol]_vars

\* a call of any of the four structure parsers
InitText ==
  /\ BondIdle /\ PdbIdle /\ LocIdle /\ XyzIdle /\ XtcIdle /\ DecIdle /\ TopIdle /\ CallsIdle
  /\ \/ TextCall("pdb", 0)
     \/ \E f \in {"gro", "xyz", "mol"}, n \in 0..MaxTextLines : TextCall(f, n)

NextText == NextPdb \/ NextGro \/ NextMol \/ NextXyz

SpecText == InitText /\ [][NextText]_vars

\* a call of parse_xtc
InitXtc ==
  /\ BondIdle /\ PdbIdle /\ XyzIdle /\ XtcIdle /\ DecIdle /\ TopIdle /\ CallsIdle
  /\ phase = "loop"
  /\ n_atoms = 0
  /\ n_bonds = 0
  /\ positions = <<>>
  /\ elements = <<>>
  /\ bonds = <<>>
  /\ bond_orders = <<>>
  /\ file_values = <<>>
  /\ TextCall("xtc", 0)

SpecXtc == InitXtc /\ [][NextXtc]_vars

\* a call of the GRO parser or of parse_xtc
InitNm ==
  \/ InitXtc
  \/ /\ BondIdle /\ PdbIdle /\ LocIdle /\ XyzIdle /\ XtcIdle /\ DecIdle /\ TopIdle /\ CallsIdle
     /\ \E n \in 0..MaxTextLines : TextCall("gro", n)

NextNm == NextGro \/ NextXtc

SpecNm == InitNm /\ [][NextNm]_vars

\* a call of parse_top_bonds, on a text drawn line by line or on the
\* self-test text
InitTop ==
  /\ BondIdle /\ TextIdle /\ PdbIdle /\ LocIdle /\ XyzIdle /\ XtcIdle /\ DecIdle
  /\ CallsIdle
  /\ top_phase = "lines"
  /\ in_bonds_section = FALSE
  /\ top_bonds = <<>>
  /\ top_text = <<>>
  /\ \/ top_rest = None /\ top_n_atoms \in TopAtomCounts
     \/ top_rest = Some(SelfTestText) /\ top_n_atoms \in SelfTestAtomCounts

SpecTop == InitTop /\ [][NextTop]_vars

\* The window of the small coordinates by itself: decompress_coords from
\* the smallidx word on (lines 256-265), and the update that ends each pass
\* of its decoding loop (lines 357-374), for passes that may end with any
\* is_smaller.
MaxWindowPasses == 4

InitWindow ==
  /\ BondIdle /\ PdbIdle /\ XyzIdle /\ XtcIdle /\ TopIdle /\ CallsIdle
  /\ phase = "large"
  /\ n_atoms = MaxWindowPasses + 1
  /\ n_bonds = 0
  /\ positions = <<>>
  /\ elements = <<>>
  /\ bonds = <<>>
  /\ bond_orders = <<>>
  /\ file_values = <<>>
  /\ TextCall("xtc window", 0)
  /\ precision = 0
  /\ minint = <<0, 0, 0>>
  /\ sizeint = <<0, 0, 0>>
  /\ bitsizeint = <<0, 0, 0>>
  /\ bitsize = 0
  /\ smallidx \in FIRSTIDX..72
  /\ smaller = InitialWindow(smallidx).smaller
  /\ smallnum = InitialWindow(smallidx).smallnum
  /\ sizesmall = InitialWindow(smallidx).sizesmall
  /\ nbytes = 0
  /\ bits = NewBitReader
  /\ coords = <<>>
  /\ output = <<>>
  /\ prevcoord = <<0, 0, 0>>
  /\ d_i = 0
  /\ run = 0
  /\ d_k = 0
  /\ is_smaller = 0
  /\ last_slot = -1

\* the end of a pass that is not the last (lines 357-374)
WindowUpdate(ism) ==
  /\ format = "xtc window" /\ outcome = "run" /\ phase = "large"
  /\ d_i + 1 < n_atoms
  /\ d_i' = d_i + 1
  /\ is_smaller' = ism
  /\ EndPass(ism, d_i + 1, output)
  /\ UNCHANGED <<format, n_lines, cursor, n_atoms>>
  /\ UNCHANGED xtcVars
  /\ UNCHANGED <<precision, minint, sizeint, bitsizeint, bitsize, nbytes, bits,
                 coords, output, prevcoord, run, d_k, last_slot>>
  /\ UNCHANGED otherThanXtc

NextWindow == \E ism \in {-1, 0, 1} : WindowUpdate(ism)

SpecWindow == InitWindow /\ [][NextWindow]_vars

\* The BitReader by itself: BitReader::new on a buffer, then decode_bits
\* calls of any widths below 32.
MaxReaderBytes == 4

MaxReaderCalls == 3

\* the bytes of the buffers: 0010 1101 and 1100 0100
ReaderBytes == {45, 196}

ReaderWidths == {0, 1, 5, 8, 9, 16, 24, 31}

\* the dec variables other than bits and nbytes, at rest
DecRest ==
  /\ precision = 0
  /\ minint = <<0, 0, 0>>
  /\ sizeint = <<0, 0, 0>>
  /\ bitsizeint = <<0, 0, 0>>
  /\ bitsize = 0
  /\ smallidx = 0
  /\ smaller = 0
  /\ smallnum = 0
  /\ sizesmall = <<0, 0, 0>>
  /\ coords = <<>>
  /\ output = <<>>
  /\ prevcoord = <<0, 0, 0>>
  /\ d_i = 0
  /\ run = 0
  /\ d_k = 0
  /\ is_smaller = 0
  /\ last_slot = -1

InitBits ==
  /\ BondIdle /\ PdbIdle /\ LocIdle /\ XyzIdle /\ XtcIdle /\ TopIdle /\ CallsIdle
  /\ DecRest
  /\ TextCall("xtc bits", 0)
  /\ \E data \in SeqsUpTo(ReaderBytes, MaxReaderBytes) :
       /\ bits = [NewBitReader EXCEPT !.buf = data]
       /\ nbytes = Len(data)

\* bits.decode_bits(width); a read of buf[cnt] past the buffer panics
DecodeBitsCall(width) ==
  /\ format = "xtc bits" /\ outcome = "run"
  /\ Len(calls) < MaxReaderCalls
  /\ LET d == decode_bits(bits, width)
     IN  IF d.oob
         THEN /\ Panics("index out of bounds: buf")
              /\ UNCHANGED <<bits, calls>>
         ELSE /\ bits' = d.br
              /\ calls' = Append(calls, [width |-> width, value |-> d.value])
              /\ UNCHANGED <<outcome, error, result>>
  /\ UNCHANGED <<format, n_lines, cursor, packed>>
  /\ UNCHANGED <<bondVars, pdbVars, pdbTextVars, locVars, xyzVars, xyzTextVars,
                 xtcVars, topVars>>
  /\ UNCHANGED <<precision, minint, sizeint, bitsizeint, bitsize, smallidx, smaller,
                 smallnum, sizesmall, nbytes, coords, output, prevcoord, d_i, run,
                 d_k, is_smaller, last_slot>>

NextBits == \E width \in ReaderWidths : DecodeBitsCall(width)

SpecBits == InitBits /\ [][NextBits]_vars

\* decode_ints by itself, on a buffer that holds three numbers n0, n1, n2
\* below the sizes s0, s1, s2 as the one number V = (n0*s1 + n1)*s2 + n2,
\* written in sizeofints(3, sizes) bits: the bytes of V from the lowest on,
\* 8 bits each, and the bits of V that remain last.

\* the sizes: up to 2^23 - 1, the largest whose products with a byte stay
\* below 2^31
RadixSizes == {1, 2, 3, 255, 256, 257, 65536, 8388607}

\* numbers below size
RadixDigits(size) == {0, size \div 2, size - 1}

\* bytes of the numbers written out, lowest first
MaxRadixBytes == 10

\* bytes * mult + add, on the bytes of a number, lowest first
RECURSIVE BigMulAdd(_, _, _, _)
BigMulAdd(bytes, j, mult, add) ==
  IF j > Len(bytes) THEN bytes
  ELSE LET t == bytes[j] * mult + add
       IN  BigMulAdd([bytes EXCEPT ![j] = t % 256], j + 1, mult, t \div 256)

\* the bytes of V
RadixValue(n, sizes) ==
  BigMulAdd(BigMulAdd(BigMulAdd([j \in 1..MaxRadixBytes |-> 0], 1, 0, n[1]),
                      1, sizes[2], n[2]),
            1, sizes[3], n[3])

\* the width bits of v, highest first
BitsOfChunk(v, width) == [b \in 1..width |-> (v \div (2 ^ (width - b))) % 2]

\* the bits of the first chunks chunks of the number of bytes value written
\* in nbits bits
RECURSIVE PackedBits(_, _, _)
PackedBits(value, nbits, chunks) ==
  IF chunks = 0 THEN <<>>
  ELSE PackedBits(value, nbits, chunks - 1)
         \o BitsOfChunk(value[chunks], Min2(8, nbits - 8 * (chunks - 1)))

\* the bytes that hold the bits bs, filled up with 0 bits
BytesOfBits(bs) ==
  [k \in 1..CeilDiv(Len(bs), 8) |->
     LET BitOr0(p) == IF p <= Len(bs) THEN bs[p] ELSE 0
     IN  BitOr0(8 * k - 7) * 128 + BitOr0(8 * k - 6) * 64 + BitOr0(8 * k - 5) * 32
           + BitOr0(8 * k - 4) * 16 + BitOr0(8 * k - 3) * 8 + BitOr0(8 * k - 2) * 4
           + BitOr0(8 * k - 1) * 2 + BitOr0(8 * k)]

\* the buffer that holds n packed for sizes in nbits bits
PackedBuffer(n, sizes, nbits) ==
  BytesOfBits(PackedBits(RadixValue(n, sizes), nbits, CeilDiv(nbits, 8)))

InitInts ==
  /\ BondIdle /\ PdbIdle /\ LocIdle /\ XyzIdle /\ XtcIdle /\ TopIdle
  /\ TextCall("xtc ints", 0)
  /\ calls = <<>>
  /\ precision = 0
  /\ minint = <<0, 0, 0>>
  /\ bitsizeint = <<0, 0, 0>>
  /\ smallidx = 0
  /\ smaller = 0
  /\ smallnum = 0
  /\ sizesmall = <<0, 0, 0>>
  /\ coords = <<>>
  /\ output = <<>>
  /\ prevcoord = <<0, 0, 0>>
  /\ d_i = 0
  /\ run = 0
  /\ d_k = 0
  /\ is_smaller = 0
  /\ last_slot = -1
  /\ \E s0 \in RadixSizes, s1 \in RadixSizes, s2 \in RadixSizes :
       \E n0 \in RadixDigits(s0), n1 \in RadixDigits(s1), n2 \in RadixDigits(s2) :
         /\ sizeint = <<s0, s1, s2>>
         /\ bitsize = sizeofints(<<s0, s1, s2>>)
         /\ packed = <<n0, n1, n2>>
         /\ bits = [NewBitReader EXCEPT
                      !.buf = PackedBuffer(<<n0, n1, n2>>, <<s0, s1, s2>>,
                                           sizeofints(<<s0, s1, s2>>))]
         /\ nbytes = CeilDiv(sizeofints(<<s0, s1, s2>>), 8)

\* bits.decode_ints(3, bitsize, &sizeint), as lines 287-290 call it
DecodeIntsCall ==
  /\ format = "xtc ints" /\ outcome = "run"
  /\ coords = <<>>
  /\ LET d == decode_ints(bits, bitsize, sizeint)
     IN  IF d.oob \/ d.div0
         THEN /\ Panics(IF d.oob THEN "index out of bounds: buf"
                        ELSE "attempt to divide by zero")
              /\ UNCHANGED <<bits, coords>>
         ELSE /\ bits' = d.br
              /\ coords' = d.nums
              /\ UNCHANGED <<outcome, error, result>>
  /\ UNCHANGED <<format, n_lines, cursor, calls, packed>>
  /\ UNCHANGED <<bondVars, pdbVars, pdbTextVars, locVars, xyzVars, xyzTextVars,
                 xtcVars, topVars>>
  /\ UNCHANGED <<precision, minint, sizeint, bitsizeint, bitsize, smallidx, smaller,
                 smallnum, sizesmall, nbytes, output, prevcoord, d_i, run, d_k,
                 is_smaller, last_slot>>

NextInts == DecodeIntsCall

SpecInts == InitInts /\ [][NextInts]_vars

\* ========================================================================
\* Properties
\* ========================================================================

NoRepeat(s) == \A k, l \in 1..Len(s) : k # l => s[k] # s[l]

\* all pairs i < j whose squared distance lies in (0.4^2, threshold^2]
BruteForceCov(pos, elems, n) ==
  { <<i, j>> \in (0..(n - 1)) \X (0..(n - 1)) :
      /\ i < j
      /\ WithinBondRange(DistSq(pos, i, j),
           covalent_radius(elems[i + 1]) + covalent_radius(elems[j + 1]),
           BOND_TOLERANCE) }

BruteForceVdw(pos, elems, n) ==
  { <<i, j>> \in (0..(n - 1)) \X (0..(n - 1)) :
      /\ i < j
      /\ WithinBondRange(DistSq(pos, i, j),
           vdw_radius(elems[i + 1]) + vdw_radius(elems[j + 1]),
           VDW_BOND_FACTOR) }

\* C7: covalent inference is idempotent: a second infer_bonds call on the
\* same atoms, with existing_bonds the pairs the first call returned, returns
\* the empty list.
C7_Idempotent == (b_phase = "again") => (b_bonds = <<>>)

\* C7 witness: the second call has run after a first call that found bonds.
C7_Witness == b_phase = "again" /\ Len(b_first) >= 2

\* C8: the scan hands each unordered atom pair to the predicate at most
\* once, and neither inference returns the same pair twice.
C8_EachPairOnce ==
  /\ NoRepeat([k \in 1..Len(b_visited) |-> OrderedPair(b_visited[k][1], b_visited[k][2])])
  /\ NoRepeat(b_bonds)

\* C8 witness: a scan over three atoms, spread over more than one cell along
\* z, that visited all three pairs and returned two bonds.
C8_Witness ==
  /\ b_phase \in {"cov", "vdw"}
  /\ Len(b_visited) = 3
  /\ Len(b_bonds) >= 2
  /\ GridDim(b_positions, b_n_atoms, COV_CELL_SIZE, 2) >= 2

\* C9 (as claimed): the pairs returned by infer_bonds and by infer_bonds_vdw
\* are exactly the pairs a brute-force scan of all i < j finds in range.
C9_Coverage ==
  /\ (b_phase = "cov") =>
       SeqToSet(b_bonds) = BruteForceCov(b_positions, b_elements, b_n_atoms)
  /\ (b_phase = "vdw") =>
       SeqToSet(b_bonds) = BruteForceVdw(b_positions, b_elements, b_n_atoms)

\* C1 (as claimed): every bond (a, b) of a successful PDB parse, declared by
\* CONECT or inferred, satisfies a < b < n_atoms.
C1_PdbBondsInRange ==
  (format = "pdb" /\ outcome = "ok") =>
    \A k \in 1..Len(result.bonds) :
      /\ result.bonds[k][1] < result.bonds[k][2]
      /\ result.bonds[k][2] < result.n_atoms

\* C6: in a successful PDB parse no pair of the CONECT-declared prefix of
\* bonds (the first n_file_bonds entries) occurs again in the inferred suffix.
C6_InferredDisjoint ==
  (format = "pdb" /\ outcome = "ok") =>
    \A k \in 1..result.n_file_bonds :
      \A l \in (result.n_file_bonds + 1)..Len(result.bonds) :
        result.bonds[k] # result.bonds[l]

\* C6 witness: CONECT declared the bond (0,1) of two atoms that are within
\* covalent range of each other, and it is the only entry of bonds.
C6_Witness ==
  /\ format = "pdb" /\ outcome = "ok"
  /\ result.n_atoms = 2
  /\ result.n_file_bonds = 1
  /\ result.bonds = << <<0, 1>> >>
  /\ <<0, 1>> \in BruteForceCov(result.positions, result.elements, result.n_atoms)


\* C2: on a successful MOL parse the k-th bond read from atom fields (i, j)
\* is the pair (min(i,j) - 1, max(i,j) - 1), and every returned pair (a, b)
\* has a < b < n_atoms.
C2_MolBondPairs ==
  (format = "mol" /\ outcome = "ok") =>
    \A k \in 1..Len(result.bonds) :
      LET i == file_values[2 * k - 1]
          j == file_values[2 * k]
          a == result.bonds[k][1]
          b == result.bonds[k][2]
      IN  /\ a = U32(Min2(i, j) - 1)
          /\ b = U32(Max2(i, j) - 1)
          /\ U32Less(a, b)
          /\ U32Less(b, U32(result.n_atoms))

\* C3: on every successful parse of a PDB, GRO, XYZ or MOL text, positions
\* holds 3 * n_atoms values, elements holds n_atoms values and every entry
\* of frame_positions holds 3 * n_atoms values.
C3_Lengths ==
  (format \in {"pdb", "gro", "xyz", "mol"} /\ outcome = "ok") =>
    /\ Len(result.positions) = 3 * result.n_atoms
    /\ Len(result.elements) = result.n_atoms
    /\ \A k \in 1..Len(result.frame_positions) :
         Len(result.frame_positions[k]) = 3 * result.n_atoms

\* a successful parse of an XYZ text of two one-atom blocks: the second
\* block is a frame
C3_Witness ==
  /\ format = "xyz" /\ outcome = "ok"
  /\ result.n_atoms = 1
  /\ Len(result.positions) = 3
  /\ Len(result.frame_positions) = 1

\* C4: whenever parse_xtc succeeds, n_frames >= 1, n_frames is the number
\* of entries of frame_positions and every frame header read had the natoms
\* of the first frame (= n_atoms); a header whose natoms differs from the
\* first frame's gives an error, and no frame at all never gives a result.
C4_XtcFrames ==
  format = "xtc" =>
    /\ outcome = "ok" =>
         /\ result.n_frames >= 1
         /\ result.n_frames = Len(result.frame_positions)
         /\ \A h \in 1..Len(frame_natoms) : frame_natoms[h] = result.n_atoms
    /\ (\E h \in 1..Len(frame_natoms) : frame_natoms[h] # frame_natoms[1]) =>
         outcome = "err"
    /\ frame_positions = <<>> => outcome # "ok"

\* C4 witness: parse_xtc has returned two frames of two atoms each.
C4_Witness ==
  /\ format = "xtc" /\ outcome = "ok"
  /\ result.n_frames = 2
  /\ frame_natoms = <<2, 2>>

\* C5 (as claimed): for natoms > 9 every frame decompress_coords returns
\* holds 3 * natoms values, the atom index of the decoding loop never
\* exceeds natoms, and no triplet is decoded for an atom slot >= natoms.
C5_DecodeWithinAtoms ==
  (format = "xtc" /\ n_atoms > 9) =>
    /\ \A f \in 1..Len(frame_positions) : Len(frame_positions[f]) = 3 * n_atoms
    /\ d_i <= n_atoms
    /\ last_slot < n_atoms

\* C10 (as claimed): every position the GRO parser returns and every
\* position of every frame parse_xtc returns is the value the file stores
\* (nm) times 10, for the compressed block and for the plain block.
C10_NmTimesTen ==
  /\ (format = "gro" /\ outcome = "ok") =>
       /\ Len(result.positions) = Len(file_values)
       /\ \A c \in 1..Len(result.positions) :
            result.positions[c] = file_values[c] * 10
  /\ (format = "xtc" /\ outcome = "ok") =>
       \A f \in 1..Len(result.frame_positions) :
         /\ Len(result.frame_positions[f]) = Len(file_values[f])
         /\ \A c \in 1..Len(result.frame_positions[f]) :
              result.frame_positions[f][c] = file_values[f][c] * 10

\* C11: when the data ends inside a frame that follows at least one complete
\* frame, parse_xtc returns Ok with the complete frames: it never returns
\* an end-of-data error once a frame has been pushed.
C11_PartialFrameDropped ==
  (format = "xtc" /\ frame_positions # <<>> /\ outcome # "run"
     /\ error \in {"unexpected end of data reading i32",
                   "unexpected end of data reading opaque"})
    => (outcome = "ok" /\ result.n_frames = Len(frame_positions))

\* C12: a successful parse_xtc returns timestep_ps = time of frame 1 - time
\* of frame 0 with two frames or more and 1 with one frame, and box_matrix
\* is the box of the last frame pushed, times 10.
C12_TimestepAndBox ==
  (format = "xtc" /\ outcome = "ok") =>
    /\ Len(frame_stamps) = Len(frame_positions)
    /\ result.timestep_ps =
         IF Len(frame_stamps) >= 2
         THEN frame_stamps[2].time - frame_stamps[1].time
         ELSE 1
    /\ result.box_matrix =
         Some([c \in 1..9 |->
                 NmToAngstrom(frame_stamps[Len(frame_stamps)].box[c])])

\* three frames whose third time differs from the second
C12_Witness ==
  /\ format = "xtc" /\ outcome = "ok"
  /\ result.n_frames = 3
  /\ frame_stamps[1].time = 0 /\ frame_stamps[2].time = 10
  /\ frame_stamps[3].time = 0
  /\ result.timestep_ps = 10

\* the line holds blanks only
TopBlankLine(line) == \A k \in 1..Len(line) : line[k] = " "

\* the first piece of the line that is not a blank
TopFirstPiece(line) ==
  line[CHOOSE k \in 1..Len(line) : line[k] # " " /\ \A l \in 1..(k - 1) : line[l] = " "]

\* a comment line
TopCommentLine(line) == ~TopBlankLine(line) /\ TopFirstPiece(line) = ";"

\* a section header
TopHeaderLine(line) == ~TopBlankLine(line) /\ TopFirstPiece(line) = "["

\* the header [ bonds ], in any case and with any blanks
TopBondsHeader(line) ==
  LET t == Trim(line)
  IN  /\ Len(t) >= 3
      /\ t[1] = "[" /\ t[Len(t)] = "]"
      /\ Trim(SubSeq(t, 2, Len(t) - 1)) \in {<<"bonds">>, <<"BONDS">>, <<"Bonds">>}

\* line k of the text lies in a section whose most recent header is [ bonds ]
TopInBonds(text, k) ==
  /\ ~TopBlankLine(text[k]) /\ ~TopCommentLine(text[k]) /\ ~TopHeaderLine(text[k])
  /\ \E h \in 1..(k - 1) :
       /\ TopBondsHeader(text[h])
       /\ \A l \in (h + 1)..(k - 1) : ~TopHeaderLine(text[l])

\* the first two tokens of the line without its comment, as integers
TopIndices(line) ==
  LET cut == Find(line, ";")
      parts == SplitWhitespace(IF cut = 0 THEN line ELSE SubSeq(line, 1, cut - 1))
  IN  IF Len(parts) < 2 \/ ParseU32(parts[1]) = None \/ ParseU32(parts[2]) = None
      THEN None
      ELSE Some(<<ParseU32(parts[1])[1], ParseU32(parts[2])[1]>>)

\* the pairs the text gives for n atoms, in the order of the lines
TopExpected(text, n) ==
  Flatten([k \in 1..Len(text) |->
    IF TopInBonds(text, k) /\ TopIndices(text[k]) # None
    THEN LET i == TopIndices(text[k])[1][1]
             j == TopIndices(text[k])[1][2]
         IN  IF i >= 1 /\ j >= 1 /\ Max2(i, j) - 1 < n
             THEN << <<Min2(i, j) - 1, Max2(i, j) - 1>> >>
             ELSE <<>>
    ELSE <<>>])

C14_TopBondsOrdered ==
  top_phase = "returned" =>
    \A k \in 1..Len(top_bonds) :
      top_bonds[k][1] < top_bonds[k][2] /\ top_bonds[k][2] < top_n_atoms

\* C15 (as claimed): on the self-test text parse_top_bonds returns
\* [(0,1),(1,2),(9,10)] for n_atoms = 20 and [(0,1)] for n_atoms = 3.
C15_SelfTestClaimed ==
  (top_phase = "returned" /\ top_text = SelfTestText) =>
    /\ top_n_atoms = 20 => top_bonds = << <<0, 1>>, <<1, 2>>, <<9, 10>> >>
    /\ top_n_atoms = 3 => top_bonds = << <<0, 1>> >>

\* C15: on the self-test text parse_top_bonds returns [(0,1),(1,2),(9,10)]
\* for n_atoms = 20 and [(0,1),(1,2)] for n_atoms = 3: only (9,10) is
\* filtered out.
C15_SelfTest ==
  (top_phase = "returned" /\ top_text = SelfTestText) =>
    /\ top_n_atoms = 20 => top_bonds = << <<0, 1>>, <<1, 2>>, <<9, 10>> >>
    /\ top_n_atoms = 3 => top_bonds = << <<0, 1>>, <<1, 2>> >>

C15_Witness ==
  /\ top_phase = "returned" /\ top_text = SelfTestText
  /\ top_n_atoms = 3 /\ Len(top_bonds) = 2

\* the position of the first occurrence of v in s
FirstIndex(s, v) == CHOOSE k \in 1..Len(s) : s[k] = v /\ \A l \in 1..(k - 1) : s[l] # v

\* C16: in a successful PDB parse the first n_file_bonds entries of bonds are
\* the distinct pairs of the CONECT records, each once, in the order of
\* their first occurrence; n_file_bonds is their number and the inferred
\* bonds follow them.
C16_ConectBondsFirst ==
  (format = "pdb" /\ outcome = "ok") =>
    LET n == result.n_file_bonds
        file_bonds == SubSeq(result.bonds, 1, n)
    IN  /\ n = Cardinality(SeqToSet(conect_bonds))
        /\ n <= Len(result.bonds)
        /\ SeqToSet(file_bonds) = SeqToSet(conect_bonds)
        /\ \A k, l \in 1..n :
             k < l => FirstIndex(conect_bonds, file_bonds[k])
                        < FirstIndex(conect_bonds, file_bonds[l])
        /\ \A k \in (n + 1)..Len(result.bonds) :
             result.bonds[k] \notin SeqToSet(conect_bonds)

\* a bond listed from both of its atoms is returned once
C16_Witness ==
  /\ format = "pdb" /\ outcome = "ok"
  /\ conect_bonds = << <<0, 1>>, <<0, 1>> >>
  /\ result.n_file_bonds = 1
  /\ result.bonds = << <<0, 1>> >>

\* C17: the box_matrix of a successful PDB parse is what the first CRYST1
\* record of the text gives, absent when that record is rejected or when
\* there is none; no later CRYST1 record supplies it.
C17_FirstCryst1Only ==
  (format = "pdb" /\ outcome = "ok") =>
    result.box_matrix =
      IF first_cryst1 = None THEN None ELSE parse_cryst1(first_cryst1[1])

\* C18: in a successful PDB parse with models closed by ENDMDL, n_atoms is
\* the atom count of the first of them and frame_positions holds, in order,
\* the positions of exactly the later ENDMDL-closed models with that count.
C18_FramesOfClosedModels ==
  (format = "pdb" /\ outcome = "ok" /\ model_count >= 1) =>
    LET closed == SubSeq(all_models, 1, model_count)
        later == SelectSeq(Tail(closed), LAMBDA m : Len(m) = Len(closed[1]))
    IN  /\ result.n_atoms = Len(closed[1])
        /\ result.positions = ModelPositions(closed[1])
        /\ result.elements = ModelElements(closed[1])
        /\ result.frame_positions =
             [k \in 1..Len(later) |-> ModelPositions(later[k])]

\* the atoms of the first model of the text: of the first MODEL block, or of
\* the whole text when it has no MODEL record
FirstModelAtoms == IF has_model_record THEN block_atoms ELSE text_atoms

\* C19: PDB parse never returns n_atoms = 0, its error for an empty first
\* model is "PDB file contains no ATOM or HETATM records", and when the
\* first model of the text holds an accepted ATOM / HETATM record the parse
\* succeeds with n_atoms the atom count of that model.
C19_FirstModelDecides ==
  (format = "pdb" /\ outcome # "run") =>
    /\ outcome = "ok" => result.n_atoms >= 1
    /\ outcome = "err" => error = "PDB file contains no ATOM or HETATM records"
    /\ FirstModelAtoms >= 1 =>
         (outcome = "ok" /\ result.n_atoms = FirstModelAtoms)

\* the positions of the blocks after the first that declare the count of
\* the first, in order
XyzLaterFrames(blocks) ==
  LET later == SelectSeq(Tail(blocks), LAMBDA b : b.count = blocks[1].count)
  IN  [k \in 1..Len(later) |-> later[k].positions]

\* C20: the first complete block of an XYZ text gives n_atoms, positions
\* and elements; each later complete block gives one entry of
\* frame_positions, in order, exactly when it declares n_atoms atoms; a
\* blank line where a count line is expected is skipped; a last block that
\* declares more atom lines than the text holds is dropped without an
\* error and the frames before it are returned.
C20_XyzBlocks ==
  format = "xyz" =>
    /\ (outcome = "ok") =>
         /\ xyz_blocks # <<>>
         /\ result.n_atoms = xyz_blocks[1].count
         /\ result.positions = xyz_blocks[1].positions
         /\ result.elements = xyz_blocks[1].elements
         /\ result.frame_positions = XyzLaterFrames(xyz_blocks)
    /\ (xyz_tail = "incomplete" /\ xyz_blocks # <<>>) => outcome = "ok"

\* a block of one atom, a blank line, and a second block of one atom
C20_Witness ==
  /\ format = "xyz" /\ outcome = "ok"
  /\ xyz_blanks >= 1
  /\ Len(xyz_blocks) = 2
  /\ xyz_blocks[1].count = 1 /\ xyz_blocks[2].count = 1
  /\ Len(result.frame_positions) = 1

\* C21: the XYZ parser never returns Ok with n_atoms = 0; a text whose first
\* block declares 0 atoms, or that yields no atoms, gives an error.
C21_XyzNeverEmpty ==
  (format = "xyz" /\ outcome # "run") =>
    /\ outcome = "ok" => result.n_atoms >= 1
    /\ (xyz_blocks # <<>> /\ xyz_blocks[1].count = 0) => outcome = "err"

\* C22: in the GRO parser and in parse_top_bonds a line whose integer field
\* cannot be parsed is skipped: it never makes the parse fail.  (The loop of
\* parse_top_bonds has no failing exit; the GRO parser's integer field is
\* the atom count of line 2.)
C22_BadIntegerSkipped ==
  /\ (format = "gro" /\ outcome = "err") => error # "cannot parse atom count in GRO"
  /\ top_phase \in {"idle", "lines", "returned"}

\* a pass of the loop of parse_xtc whose header has a magic other than 1995,
\* a natoms of zero or an lsize other than natoms
MalformedHeaderPass ==
  \E words \in 4..14, magic \in XtcMagics, natoms \in XtcAtomCounts,
     stamp \in XtcStamps, lsize \in XtcAtomCounts, overflow_checks \in BOOLEAN :
    /\ XtcFrameHeader(words, magic, natoms, stamp.time, stamp.box, lsize,
                      overflow_checks)
    /\ \/ magic # XTC_MAGIC
       \/ natoms = 0
       \/ lsize # (IF n_atoms = 0 THEN natoms ELSE n_atoms)

\* the start of a compressed block whose precision is zero
ZeroPrecisionBlock ==
  \E words \in 0..9, range \in XtcRanges, sidx \in XtcSmallIdx,
     nb \in XtcStreamLengths, enough \in BOOLEAN :
    XtcCompressedHeader(words, 0, range, sidx, nb, enough)

\* C23: parse_xtc returns an error value, neither a result nor an abort, for
\* a header whose magic is not 1995, whose natoms is zero or negative as an
\* i32, for a coordinate block whose lsize differs from natoms and for a
\* precision of zero.  (A smallidx word outside the table, which comes after
\* them in the block, is left aside here.)
C23_MalformedHeaderIsError ==
  /\ [][(MalformedHeaderPass \/ ZeroPrecisionBlock) => outcome' = "err"]_vars
  /\ [](( /\ format = "xtc"
          /\ frame_natoms # <<>>
          /\ frame_natoms[Len(frame_natoms)] < 0
          /\ outcome # "run"
          /\ error # "index out of bounds: MAGICINTS" ) => outcome = "err")

\* the floats of a coordinate triplet
Floats(triple) == [c \in 1..3 |-> Dequantize(triple[c], precision)]

\* the triplet at atom slot s of coords
SlotOf(s) == SubSeq(coords, 3 * s + 1, 3 * s + 3)

\* C24: on the first triplet of a small run (k == 0) the decoded triplet is
\* swapped with prevcoord, the swapped-out large coordinate is emitted first
\* and the new prevcoord (the first small coordinate) after it; on a later
\* triplet prevcoord becomes the decoded coordinate, which is emitted once.
C24_LargeBeforeSmall ==
  ( /\ format = "xtc" /\ outcome # "panic"
    /\ phase \in {"small", "large", "loop"}
    /\ d_k >= 3 /\ output # <<>> ) =>
      LET n == Len(output)
      IN  /\ n = 3 * d_i
          /\ IF d_k = 3
             THEN /\ SubSeq(output, n - 5, n - 3) = Floats(SlotOf(last_slot))
                  /\ SubSeq(output, n - 2, n) = Floats(prevcoord)
             ELSE /\ SubSeq(output, n - 2, n) = Floats(prevcoord)
                  /\ SlotOf(last_slot) = prevcoord

\* C25: from a smallidx word in FIRSTIDX..72 and for any is_smaller values
\* in {-1, 0, +1}, after each window update that does not fail
\* smallidx >= FIRSTIDX, sizesmall = MAGICINTS[smallidx] # 0 and
\* smallnum = MAGICINTS[smallidx] / 2; an update that leaves sizesmall[0] = 0
\* ends the decode with an error before any further triplet.
C25_WindowInvariant ==
  (format = "xtc window") =>
     /\ outcome = "run" =>
          /\ smallidx >= FIRSTIDX /\ smallidx <= 72
          /\ sizesmall = [c \in 1..3 |-> MAGICINTS[smallidx + 1]]
          /\ sizesmall[1] # 0
          /\ smallnum = MAGICINTS[smallidx + 1] \div 2
     /\ (smallidx \in 0..72 /\ sizesmall[1] = 0) =>
          /\ outcome = "err"
          /\ error = "invalid sizesmall in xdr3dfcoord"

\* a window that went down and up again is in place after some passes
C25_Witness ==
  /\ format = "xtc window" /\ outcome = "run"
  /\ d_i = MaxWindowPasses /\ is_smaller = 1
  /\ smallidx = FIRSTIDX + 1 /\ smaller = MAGICINTS[FIRSTIDX + 1] \div 2

\* bit p of the bytes data, counted from 0 at the highest bit of the first
\* byte
BitAt(data, p) == (data[(p \div 8) + 1] \div (2 ^ (7 - (p % 8)))) % 2

\* the number whose binary digits, highest first, are the width bits of
\* data from bit start on
RECURSIVE StreamValue(_, _, _)
StreamValue(data, start, width) ==
  IF width = 0 THEN 0
  ELSE 2 * StreamValue(data, start, width - 1) + BitAt(data, start + width - 1)

\* the bits asked for by the first k calls
RECURSIVE BitsAsked(_)
BitsAsked(k) == IF k = 0 THEN 0 ELSE BitsAsked(k - 1) + calls[k].width

\* C26: decode_bits reads the bits highest first and one call after the
\* other: calls of widths in 1..31 whose sum is at most 8 * len(buffer)
\* return, each, the number made of the next width bits of the buffer.
C26_BitsInOrder ==
  (format = "xtc bits" /\ \A k \in 1..Len(calls) : calls[k].width >= 1) =>
    \A k \in 1..Len(calls) :
      /\ BitsAsked(k) <= 8 * Len(bits.buf)
      /\ calls[k].value = StreamValue(bits.buf, BitsAsked(k - 1), calls[k].width)

\* three calls, the second across byte limits from inside a byte, with
\* bits of both kinds
C26_Witness ==
  /\ format = "xtc bits" /\ outcome = "run"
  /\ Len(calls) = 3
  /\ calls[1].width = 5 /\ calls[2].width = 16 /\ calls[3].width = 9
  /\ bits.buf = <<45, 196, 45, 196>>

\* C28: after decode_bits calls of widths in 0..31, lastbits is in 0..7,
\* 8 * cnt - lastbits is the number of bits asked for, and the bytes
\* consumed are that number over 8, rounded up.
C28_ReaderPosition ==
  (format = "xtc bits" /\ outcome = "run") =>
    /\ bits.lastbits \in 0..7
    /\ 8 * bits.cnt - bits.lastbits = BitsAsked(Len(calls))
    /\ bits.cnt = CeilDiv(BitsAsked(Len(calls)), 8)

\* calls of width 0 and of widths that end inside a byte
C28_Witness ==
  /\ format = "xtc bits" /\ outcome = "run"
  /\ Len(calls) = 3
  /\ calls[1].width = 0 /\ calls[2].width = 9 /\ calls[3].width = 5
  /\ bits.lastbits = 2 /\ bits.cnt = 2

\* the number of bytes value is below 2^nbits
FitsIn(value, nbits) ==
  \A j \in 1..Len(value) :
    IF 8 * j <= nbits THEN TRUE
    ELSE IF 8 * (j - 1) >= nbits THEN value[j] = 0
    ELSE value[j] < 2 ^ (nbits - 8 * (j - 1))

\* C27: for sizes in 1..0xFFFFFF and numbers n_i < s_i, with
\* V = (n0*s1 + n1)*s2 + n2 written in nbits = sizeofints(3, sizes) bits, low
\* bytes first and the remaining high bits last, decode_ints(3, nbits,
\* sizes) returns [n0, n1, n2]; nbits bits always hold V.
C27_RadixRoundTrip ==
  (format = "xtc ints") =>
    /\ FitsIn(RadixValue(packed, sizeint), bitsize)
    /\ outcome = "run"
    /\ coords # <<>> => coords = packed

\* numbers that fill more than four bytes came back
C27_Witness ==
  /\ format = "xtc ints"
  /\ coords = packed /\ packed = <<128, 8388606, 1>>
  /\ sizeint = <<257, 8388607, 3>>
  /\ bitsize > 32

\* C29: every index used to read the 73 entries of MAGICINTS lies in 0..72,
\* for any smallidx word and any is_smaller adjustments: a smallidx outside
\* the table ends the decode with an error result, never with an access out
\* of range.
C29_MagicIndexInTable ==
  (format \in {"xtc", "xtc window"}) =>
    /\ error # "index out of bounds: MAGICINTS"
    /\ outcome = "run" => smallidx \in 0..72

\* C30: the bit reader never reads a byte at an index >= nbytes: a bitstream
\* too short for the atoms makes parse_xtc return an error instead of
\* reading past its end.
C30_ShortBitstreamIsError ==
  (format = "xtc") =>
    /\ bits.cnt <= nbytes
    /\ error = "index out of bounds: buf" => outcome = "err"

====
